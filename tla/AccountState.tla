---------------------------- MODULE AccountState -----------------------------
(***************************************************************************)
(* The storage of one TradingAccount clone (contracts/vaults/              *)
(* TradingAccount.sol) and what the diamond's calls do to it.  An account  *)
(* is a record:                                                            *)
(*   exists       the clone has been deployed and initialised              *)
(*   balance      IERC20(token).balanceOf(account)                         *)
(*   totalLocked  _totalLocked                                             *)
(*   margins      _positionMargins, of which token and lockedAmount matter *)
(*   active       _activePositionIds                                       *)
(*   index        _positionIdxInActive, 1-based, 0 = not in the list       *)
(* The append-only ledger is left out: no operation reads it back.         *)
(***************************************************************************)
EXTENDS Integers, Sequences

CONSTANTS
    Tokens,
    NoToken,           \* address(0) in PositionMargin.token
    MaxPositions       \* bound on position ids; slot 0 exists as well

Slots == 0..MaxPositions

EmptyAccount(exists) ==
    [exists      |-> exists,
     balance     |-> [t \in Tokens |-> 0],
     totalLocked |-> [t \in Tokens |-> 0],
     margins     |-> [s \in Slots |-> [token |-> NoToken, locked |-> 0]],
     active      |-> <<>>,
     index       |-> [s \in Slots |-> 0]]

\* What withdraw, emergencyWithdraw and lockForPosition regard as free.
AvailableBalance(a, t) ==
    IF a.balance[t] <= a.totalLocked[t] THEN 0
    ELSE a.balance[t] - a.totalLocked[t]

AddActivePosition(a, s) ==
    IF a.index[s] # 0 THEN a
    ELSE [a EXCEPT !.active = Append(@, s), !.index[s] = Len(a.active) + 1]

\* Swap with the last entry, then pop.
RemoveActivePosition(a, s) ==
    IF a.index[s] = 0 THEN a
    ELSE LET n == Len(a.active)
             last == a.active[n]
         IN  [a EXCEPT
                !.active = [i \in 1..(n - 1) |->
                              IF i = a.index[s] THEN last ELSE a.active[i]],
                !.index = [x \in Slots |->
                              IF x = s THEN 0
                              ELSE IF x = last THEN a.index[s]
                              ELSE a.index[x]]]

CanLock(a, t, amount) ==
    /\ a.exists
    /\ amount > 0
    /\ amount <= AvailableBalance(a, t)

\* lockForPosition: the tokens leave the account and stay in totalLocked.
LockForPosition(a, t, amount, s) ==
    LET opened == IF a.margins[s].token # NoToken THEN a
                  ELSE AddActivePosition([a EXCEPT !.margins[s].token = t], s)
    IN  [opened EXCEPT !.margins[s].locked = @ + amount,
                       !.totalLocked[t]    = @ + amount,
                       !.balance[t]        = @ - amount]

\* unlockFromPosition, the tokens having been transferred in before.
UnlockFromPosition(a, t, amount, s) ==
    LET left == IF a.margins[s].locked >= amount
                THEN a.margins[s].locked - amount ELSE 0
        b == [a EXCEPT !.margins[s].locked = left,
                       !.totalLocked[t] = IF @ >= amount THEN @ - amount ELSE 0]
    IN  IF left = 0 THEN RemoveActivePosition(b, s) ELSE b

\* safeTransfer(token, account, amount) followed by unlockFromPosition.
PayIn(a, t, amount, s) ==
    UnlockFromPosition([a EXCEPT !.balance[t] = @ + amount], t, amount, s)
==============================================================================
