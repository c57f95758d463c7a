---------------------------- MODULE MCEvmSources -----------------------------
(***************************************************************************)
(* Instances of EvmSources for TLC: a short chain in which funds arrive by *)
(* both kinds of bridge and move on.                                       *)
(***************************************************************************)
EXTENDS EvmSources

CONSTANTS bridge, pool, alice, bob, carol, usdc, e1, e2, g1, g2

Mint(to, amount, evm) == [kind |-> "bridge", address |-> to, asset |-> None,
                          amount |-> amount, evm |-> evm, guid |-> None]
OftReceived(to, amount, guid) == [kind |-> "bridge", address |-> to, asset |-> None,
                                  amount |-> amount, evm |-> None, guid |-> guid]
Side(kind, owner, amount) == [kind |-> kind, address |-> owner, asset |-> usdc,
                              amount |-> amount, evm |-> None, guid |-> None]
Withdraw(owner, amount) == Side("withdraw", owner, amount)
Deposit(owner, amount) == Side("deposit", owner, amount)

\* 1: USDCx is minted for alice, who passes some on to bob at once.
\* 2: a LayerZero transfer is paid out of the pool to alice, GUID only.
\* 3: a LayerZero transfer from the same EVM address reaches bob.
\* 4: alice pays bob, before or after the GUIDs were resolved, and he pays carol.
Chain ==
    << <<Mint(alice, 2, e1), Deposit(alice, 2), Withdraw(alice, 1), Deposit(bob, 1)>>,
       <<OftReceived(alice, 3, g1), Withdraw(pool, 3), Deposit(alice, 3)>>,
       <<OftReceived(bob, 5, g2), Deposit(bob, 5)>>,
       <<Withdraw(alice, 1), Deposit(bob, 1), Withdraw(bob, 4), Deposit(carol, 4)>> >>

Senders == g1 :> e2 @@ g2 :> e2
==============================================================================
