------------------------------- MODULE Token -------------------------------
(***************************************************************************)
(* The stores of the token module of one chain                             *)
(* (framework/src/modules/token) as a record, a ledger, and its methods as *)
(* functions from ledger to ledger:                                        *)
(*                                                                         *)
(*   own        the chain;                                                 *)
(*   users      the user substore, a function from the existing keys       *)
(*              <<address, token>> to an account;                          *)
(*   supply     the supply substore, from the initialized native tokens;   *)
(*   escrow     the escrow substore, from the existing keys                *)
(*              <<chain, token>> to an amount;                             *)
(*   allTokens  whether the supported tokens substore has the empty key;   *)
(*   supported  its other keys: from a chain to the supported tokens,      *)
(*              where the empty set means every token of the chain.        *)
(*                                                                         *)
(* A token is <<chain, local ID>>.  lockedBalances is saved without zero   *)
(* entries and sorted by module, so it is a function that is zero where    *)
(* there is no entry.  An operation that may throw has two operators: what *)
(* it needs in order not to throw, and what it then stores.  Creating an   *)
(* account is paid for by feeMethod.payFee, whose budget is the caller's:  *)
(* initializationFee says what the operation takes from it.                *)
(***************************************************************************)
EXTENDS Integers, FiniteSets, FiniteSetsExt, Functions

CONSTANTS
    Mainchain,              \* the chain whose token KLY is supported everywhere
    LockModules,            \* the modules that lock tokens
    UserInitFee,            \* userAccountInitializationFee of the configuration
    MaxAmount               \* 2^64 - 1: a supply above it is refused

ASSUME AmountAssumption == UserInitFee \in Nat /\ MaxAmount \in Nat

KLY == <<Mainchain, 0>>

TokenChain(t) == t[1]

\* f with the value v at k, whether or not k is in its domain.
Put(f, k, v) == [x \in DOMAIN f \cup {k} |-> IF x = k THEN v ELSE f[x]]

NoKeys == [x \in {} |-> 0]

Drop(f, k) == Restrict(f, DOMAIN f \ {k})

(* ------------------------------- queries ------------------------------- *)

isNativeToken(l, t) == TokenChain(t) = l.own

userSubstoreExists(l, a, t) == <<a, t>> \in DOMAIN l.users

DefaultAccount == [available |-> 0, locked |-> [m \in LockModules |-> 0]]

Account(l, a, t) ==
    IF userSubstoreExists(l, a, t) THEN l.users[<<a, t>>] ELSE DefaultAccount

getAvailableBalance(l, a, t) == Account(l, a, t).available

getLockedAmount(l, a, m, t) == Account(l, a, t).locked[m]

\* EscrowStore.getOrDefault and TokenMethod.getEscrowedAmount.
getEscrowedAmount(l, c, t) == IF <<c, t>> \in DOMAIN l.escrow THEN l.escrow[<<c, t>>] ELSE 0

(* -------------------------------- stores ------------------------------- *)

initializationFee(l, a, t) == IF userSubstoreExists(l, a, t) THEN 0 ELSE UserInitFee

initializeUserAccount(l, a, t) == [l EXCEPT !.users = Put(@, <<a, t>>, Account(l, a, t))]

addAvailableBalance(l, a, t, x) == [l EXCEPT !.users[<<a, t>>].available = @ + x]

initializeEscrowAccount(l, c, t) ==
    [l EXCEPT !.escrow = Put(@, <<c, t>>, getEscrowedAmount(l, c, t))]

addAmount(l, c, t, x) == [l EXCEPT !.escrow = Put(@, <<c, t>>, getEscrowedAmount(l, c, t) + x)]

(* ------------------------------- methods ------------------------------- *)

mintable(l, a, t, x) ==
    \/ x <= 0
    \/ /\ isNativeToken(l, t) /\ t \in DOMAIN l.supply
       /\ l.supply[t] + x <= MaxAmount
       /\ getAvailableBalance(l, a, t) + x <= MaxAmount

mint(l, a, t, x) ==
    IF x <= 0 THEN l
    ELSE [addAvailableBalance(initializeUserAccount(l, a, t), a, t, x) EXCEPT !.supply[t] = @ + x]

\* What burn, transfer and lock ask of the account they take from.
spendable(l, a, t, x) ==
    x <= 0 \/ (userSubstoreExists(l, a, t) /\ getAvailableBalance(l, a, t) >= x)

\* Mutant: the supply is not reduced.
BurnWithoutSupply(l, a, t, x) == IF x <= 0 THEN l ELSE addAvailableBalance(l, a, t, 0 - x)

burn(l, a, t, x) ==
    IF x <= 0 THEN l
    ELSE LET burnt == addAvailableBalance(l, a, t, 0 - x)
         IN  IF isNativeToken(l, t) THEN [burnt EXCEPT !.supply[t] = @ - x] ELSE burnt

\* The recipient is read again after the sender is saved: they may be the same.
transfer(l, from, to, t, x) ==
    IF x <= 0 THEN l
    ELSE addAvailableBalance(
             addAvailableBalance(initializeUserAccount(l, to, t), from, t, 0 - x), to, t, x)

lock(l, a, m, t, x) ==
    IF x <= 0 THEN l
    ELSE [l EXCEPT !.users[<<a, t>>].available = @ - x, !.users[<<a, t>>].locked[m] = @ + x]

unlockable(l, a, m, t, x) == x <= 0 \/ getLockedAmount(l, a, m, t) >= x

unlock(l, a, m, t, x) ==
    IF x <= 0 THEN l
    ELSE [l EXCEPT !.users[<<a, t>>].available = @ + x, !.users[<<a, t>>].locked[m] = @ - x]

\* A fee of zero is charged too when the account is missing: the read throws.
feePayable(l, a, fee) == userSubstoreExists(l, a, KLY) /\ getAvailableBalance(l, a, KLY) >= fee

payMessageFee(l, a, c, fee) ==
    LET paid == addAvailableBalance(l, a, KLY, 0 - fee)
    IN  IF isNativeToken(l, KLY) THEN addAmount(paid, c, KLY, fee) ELSE paid

(* --------------------------- supported tokens -------------------------- *)

isMainchainOrNative(l, t) == isNativeToken(l, t) \/ t = KLY

isSupported(l, t) ==
    \/ isMainchainOrNative(l, t)
    \/ l.allTokens
    \/ /\ TokenChain(t) \in DOMAIN l.supported
       /\ l.supported[TokenChain(t)] = {} \/ t \in l.supported[TokenChain(t)]

\* removeAll walks the keys from eight zero bytes on, which the empty key precedes.
removeAllTokensSupport(l) == [l EXCEPT !.supported = NoKeys]

supportAllTokens(l) == [removeAllTokensSupport(l) EXCEPT !.allTokens = TRUE]

supportAllTokensFromChainID(l, c) ==
    IF l.allTokens \/ c = l.own THEN l ELSE [l EXCEPT !.supported = Put(@, c, {})]

removableChain(l, c) == ~l.allTokens /\ c # l.own

removeAllTokensSupportFromChainID(l, c) == [l EXCEPT !.supported = Drop(@, c)]

supportTokenID(l, t) ==
    LET c == TokenChain(t)
    IN  IF \/ isMainchainOrNative(l, t) \/ l.allTokens
           \/ c \in DOMAIN l.supported /\ l.supported[c] = {}
        THEN l
        ELSE [l EXCEPT !.supported =
                 Put(@, c, {t} \cup IF c \in DOMAIN @ THEN @[c] ELSE {})]

(* -------------------------------- totals ------------------------------- *)

\* What the accounts of a ledger hold of a token, available and locked.
UsersTotal(l, t) ==
    SumFunction([k \in {u \in DOMAIN l.users : u[2] = t} |->
                    l.users[k].available + SumFunction(l.users[k].locked)])

EscrowTotal(l, t) == SumFunction(Restrict(l.escrow, {k \in DOMAIN l.escrow : k[2] = t}))
============================================================================
