-------------------------- MODULE Interoperability --------------------------
(***************************************************************************)
(* The interoperability module of a mainchain and its sidechains           *)
(* (framework/src/modules/interoperability), with the token and the fee    *)
(* module it calls while it processes cross-chain messages (CCMs).         *)
(*                                                                         *)
(*   chain[c]   the state of chain c: its token ledger, its nonce and, for *)
(*              every partner, the status of the chain account, the size   *)
(*              of the inbox, the outbox, whether the outbox root is in    *)
(*              its substore (stored), the terminated state and terminated *)
(*              outbox accounts; seen is what the last certificate of the  *)
(*              mainchain says of the other sidechains;                    *)
(*   cert[c]    the certificate of c a relayer may submit: what the        *)
(*              certified state root commits to;                           *)
(*   used[c]    the chains that have processed cert[c].  They accept only  *)
(*              a larger height, hence only the next certificate; a faulty *)
(*              chain always has one;                                      *)
(*   late       the sidechains whose last certificate on the mainchain is  *)
(*              older than LIVENESS_LIMIT;                                 *)
(*   halted     the chains whose nodes called panic and exited.            *)
(*                                                                         *)
(* An outbox is the sequence of its messages: a Merkle root stands for it, *)
(* and an inbox, a prefix of the partner's outbox, is its size.  Validator *)
(* updates and signatures are not modelled: a certificate is authentic.  A *)
(* chain in Faulty has certificates for whatever it likes.  Transactions   *)
(* carry a sufficient transaction fee.                                     *)
(***************************************************************************)
EXTENDS Token, Sequences, SequencesExt

CONSTANTS
    Sidechains, Faulty,     \* Faulty \subseteq Sidechains
    Slow,                   \* the sidechains that may stop sending certificates
    Address, Relayer,       \* Relayer \in Address sends every CCU
    Tokens,                 \* the tokens in use
    Amounts, Fees,          \* amounts and message fees of transfers
    FaultyAmounts,          \* amounts of the transfers of a faulty chain
    MinReturnFee,           \* minReturnFeePerByte times the size of a message
    Listing,                \* the chains that change which tokens they support;
                            \* the others support every token
    Endowment,              \* what a user has of a native token at genesis
    Open,                   \* the sidechains that are registered from the start
    MaxMessages,            \* bound: messages that the chains send in total
    FaultyKinds,            \* the kinds of messages a faulty chain sends
    MaxFaulty               \* bound: messages in the outbox of a faulty chain

ASSUME InteroperabilityAssumption ==
    /\ Faulty \subseteq Sidechains /\ Mainchain \notin Sidechains
    /\ Relayer \in Address /\ "fee" \in LockModules
    /\ Amounts \cup FaultyAmounts \subseteq Nat \ {0} /\ Fees \subseteq Nat /\ MinReturnFee \in Nat

VARIABLES chain, cert, used, late, halted

vars == <<chain, cert, used, late, halted>>

Chains == Sidechains \cup {Mainchain}

Honest == Chains \ Faulty

(* ------------------------- cross-chain messages ------------------------ *)

NoParams == [token |-> KLY, amount |-> 0, sender |-> Relayer, recipient |-> Relayer]

Message(nonce, kind, from, to, fee, status, params) ==
    [nonce |-> nonce, kind |-> kind, from |-> from, to |-> to,
     fee |-> fee, status |-> status, params |-> params]

\* The commands of the registered modules; "unknown" has none, and a
\* "malformed" message has parameters that its command does not decode.
Supported(s, kind) ==
    \/ kind \in {"registration", "channelTerminated", "transfer", "malformed"}
    \/ kind = "sidechainTerminated" /\ s.ledger.own # Mainchain

\* A message returned to where it came from.
Returned(ccm, status, fee) ==
    [ccm EXCEPT !.from = ccm.to, !.to = ccm.from, !.status = status, !.fee = fee]

(* ------------------------------ one chain ------------------------------ *)
(* Operators on the state s of a chain.  One that may throw returns        *)
(* whether it did not, and the state, as Done(s) or Throw(s).              *)

Done(s) == [ok |-> TRUE, s |-> s]

Throw(s) == [ok |-> FALSE, s |-> s]

\* A sidechain reaches a chain it has no account of through the mainchain.
Partner(s, c) == IF s.ledger.own = Mainchain \/ s.status[c] # "none" THEN c ELSE Mainchain

HasChannel(s, c) == c # s.ledger.own /\ s.status[Partner(s, c)] # "none"

\* overdue: a timestamp is given and the last certificate of c is too old for it.
isLive(s, c, overdue) ==
    \/ c = s.ledger.own
    \/ /\ s.ledger.own = Mainchain
       /\ s.status[c] = "registered" \/ (s.status[c] = "active" /\ ~overdue)
    \/ /\ s.ledger.own # Mainchain
       /\ s.status[c] # "terminated" /\ c \notin DOMAIN s.terminated

addToOutbox(s, p, ccm) == [s EXCEPT !.outbox[p] = Append(@, ccm), !.stored = @ \cup {p}]

\* timed: the caller passes a timestamp.
sendInternal(s, sender, kind, to, fee, params, timed, overdue) ==
    LET own   == s.ledger.own
        ccm   == Message(s.nonce, kind, own, to, fee, "ok", params)
        paid  == IF fee > 0 THEN payMessageFee(s.ledger, sender, to, fee) ELSE s.ledger
    IN  IF /\ to # own
           /\ own = Mainchain => timed
           /\ isLive(s, to, overdue)
           /\ fee > 0 => HasChannel(s, to) /\ feePayable(s.ledger, sender, fee)
           /\ s.status[to] \in {"none", "active"}
        THEN Done([addToOutbox(s, Partner(s, to), ccm) EXCEPT !.ledger = paid, !.nonce = @ + 1])
        ELSE Throw(s)

createTerminatedStateAccount(s, c, rooted) ==
    LET account == [initialized |-> rooted \/ s.status[c] # "none",
                    seen        |-> s.seen, recovered |-> {}]
        stored  == [s EXCEPT !.terminated = Put(@, c, account)]
    IN  IF s.status[c] # "none"
        THEN Done([stored EXCEPT !.status[c] = "terminated", !.stored = @ \ {c}])
        ELSE IF s.ledger.own = Mainchain THEN Throw(s) ELSE Done(stored)

\* The message is sent without a timestamp.
terminateChainInternal(s, c) ==
    LET sent == sendInternal(s, Relayer, "channelTerminated", c, 0, NoParams, FALSE, FALSE)
    IN  IF c \in DOMAIN s.terminated THEN Done(s)
        ELSE IF sent.ok THEN createTerminatedStateAccount(sent.s, c, FALSE) ELSE sent

(* -------------------- hooks of the token and fee modules --------------- *)

verifyCrossChainMessage(s, ccm) ==
    /\ HasChannel(s, ccm.from)
    /\ isNativeToken(s.ledger, KLY) => getEscrowedAmount(s.ledger, ccm.from, KLY) >= ccm.fee

\* The message fee goes from the escrow to the relayer, where it is locked.
CanExecute(s, ccm) ==
    verifyCrossChainMessage(s, ccm) /\ userSubstoreExists(s.ledger, Relayer, KLY)

beforeCrossChainCommandExecute(s, ccm) ==
    LET l == IF isNativeToken(s.ledger, KLY)
             THEN addAmount(s.ledger, ccm.from, KLY, 0 - ccm.fee) ELSE s.ledger
    IN  [s EXCEPT !.ledger =
            lock(addAvailableBalance(l, Relayer, KLY, ccm.fee), Relayer, "fee", KLY, ccm.fee)]

\* What the command did not leave of the fee (left) is burned.
afterCrossChainCommandExecute(s, ccm, left) ==
    [s EXCEPT !.ledger = burn(unlock(@, Relayer, "fee", KLY, ccm.fee),
                              Relayer, KLY, ccm.fee - left)]

beforeCrossChainMessageForwarding(s, ccm, failed) ==
    LET l == addAmount(s.ledger, ccm.from, KLY, 0 - ccm.fee)
    IN  [s EXCEPT !.ledger =
            IF ccm.fee = 0 THEN @
            ELSE IF failed THEN addAvailableBalance(l, Relayer, KLY, ccm.fee)
                           ELSE addAmount(l, ccm.to, KLY, ccm.fee)]

(* ------------------------- cross-chain commands ------------------------ *)

\* ccuFrom is the chain whose CCU carries the message.
verifyRegistration(s, ccm, ccuFrom) ==
    /\ s.status[ccm.from] = "registered" /\ ccm.from = ccuFrom
    /\ s.inbox[ccm.from] = 0
    /\ ccm.status = "ok" /\ ccm.to = s.ledger.own
    /\ s.ledger.own = Mainchain => ccm.nonce = 0

escrowCovers(l, ccm) ==
    isNativeToken(l, ccm.params.token) =>
        getEscrowedAmount(l, ccm.from, ccm.params.token) >= ccm.params.amount

\* Mutant: a token of any chain is accepted.
AnyToken(s, ccm) == escrowCovers(s.ledger, ccm)

verifyTransfer(s, ccm) ==
    /\ TokenChain(ccm.params.token) \in {s.ledger.own, ccm.from}
    /\ escrowCovers(s.ledger, ccm)

\* The mainchain's sendInternal has thrown wherever a "sidechainTerminated"
\* message would be sent, so one that exists is not from the mainchain.
verifyCommand(s, ccm, ccuFrom) ==
    CASE ccm.kind = "registration"      -> verifyRegistration(s, ccm, ccuFrom)
      [] ccm.kind = "transfer"          -> verifyTransfer(s, ccm)
      [] ccm.kind = "channelTerminated" -> TRUE
      [] OTHER                          -> FALSE

\* The ledger l with the amount moved from the escrow of the sending chain.
Received(l, ccm, recipient) ==
    LET t == ccm.params.token
        x == ccm.params.amount
    IN  addAvailableBalance(IF isNativeToken(l, t) THEN addAmount(l, ccm.from, t, 0 - x) ELSE l,
                            recipient, t, x)

Recipient(ccm) == IF ccm.status = "ok" THEN ccm.params.recipient ELSE ccm.params.sender

\* Mutant: execute relies on the check that verify made before the fee was taken.
ExecuteUnchecked(s, ccm) ==
    LET t    == ccm.params.token
        cost == initializationFee(s.ledger, Recipient(ccm), t)
        l    == initializeUserAccount(s.ledger, Recipient(ccm), t)
    IN  IF ~isSupported(s.ledger, t) THEN [ok |-> FALSE, s |-> s, left |-> ccm.fee]
        ELSE IF cost > ccm.fee THEN [ok |-> FALSE, s |-> s, left |-> 0]
        ELSE [ok |-> TRUE, left |-> ccm.fee - cost,
              s  |-> [s EXCEPT !.ledger = Received(l, ccm, Recipient(ccm))]]

\* Creating the recipient's account is paid from the message fee.  The escrow is
\* checked again: the message fee has been taken from it since verify.
executeTransfer(s, ccm) ==
    LET t    == ccm.params.token
        cost == initializationFee(s.ledger, Recipient(ccm), t)
        l    == initializeUserAccount(s.ledger, Recipient(ccm), t)
    IN  IF ~isSupported(s.ledger, t) THEN [ok |-> FALSE, s |-> s, left |-> ccm.fee]
        ELSE IF cost > ccm.fee THEN [ok |-> FALSE, s |-> s, left |-> 0]
        ELSE IF ~escrowCovers(l, ccm) THEN [ok |-> FALSE, s |-> s, left |-> ccm.fee - cost]
        ELSE [ok |-> TRUE, left |-> ccm.fee - cost,
              s  |-> [s EXCEPT !.ledger = Received(l, ccm, Recipient(ccm))]]

executeChannelTerminated(s, ccm) ==
    IF ccm.status # "ok" \/ ccm.from \in DOMAIN s.terminated THEN Done(s)
    ELSE createTerminatedStateAccount(s, ccm.from, FALSE)

\* A message that the mainchain forwarded is refused over a direct channel.
executeCommand(s, ccm, ccuFrom) ==
    LET Left(r) == [ok |-> r.ok, s |-> r.s, left |-> ccm.fee]
    IN  IF s.status[ccm.from] # "none" /\ ccuFrom # ccm.from THEN Left(Throw(s))
        ELSE CASE ccm.kind = "registration" -> Left(Done([s EXCEPT !.status[ccm.from] = "active"]))
               [] ccm.kind = "transfer"     -> executeTransfer(s, ccm)
               [] OTHER                     -> Left(executeChannelTerminated(s, ccm))

(* ---------------------------- processing a CCU ------------------------- *)

bounce(s, ccm, status) ==
    IF ccm.status # "ok" \/ ccm.fee < MinReturnFee THEN s
    ELSE addToOutbox(s, Partner(s, ccm.from), Returned(ccm, status, 0))

\* Mutant: a terminated sending chain is not noticed.
VerifyWithoutLive(s, ccm) == verifyCrossChainMessage(s, ccm)

\* isLive is called without a timestamp.
verifyCCM(s, ccm) == isLive(s, ccm.from, FALSE) /\ verifyCrossChainMessage(s, ccm)

apply(s, ccm, ccuFrom) ==
    LET paid     == beforeCrossChainCommandExecute(s, ccm)
        executed == executeCommand(paid, ccm, ccuFrom)
    IN  IF \/ ~verifyCCM(s, ccm) \/ ~CanExecute(s, ccm)
           \/ Supported(s, ccm.kind) /\ ~verifyCommand(s, ccm, ccuFrom)
        THEN terminateChainInternal(s, ccm.from)
        ELSE IF ~Supported(s, ccm.kind)
        THEN Done(bounce(afterCrossChainCommandExecute(paid, ccm, ccm.fee), ccm, "notSupported"))
        ELSE IF executed.ok
        THEN Done(afterCrossChainCommandExecute(executed.s, ccm, executed.left))
        ELSE Done(bounce(afterCrossChainCommandExecute(paid, ccm, executed.left), ccm, "failed"))

\* A receiving chain that is not live is terminated and reported to the sending
\* chain, again without a timestamp: on the mainchain this sendInternal throws.
forward(s, ccm, overdue) ==
    LET known  == s.status[ccm.to] \in {"active", "terminated"}
        failed == ~known
        moved  == beforeCrossChainMessageForwarding(s, ccm, failed)
    IN  IF ~verifyCCM(s, ccm) \/ (failed /\ ~userSubstoreExists(s.ledger, Relayer, KLY))
        THEN terminateChainInternal(s, ccm.from)
        ELSE IF known /\ ~isLive(s, ccm.to, overdue)
        THEN LET ended == terminateChainInternal(s, ccm.to)
             IN  IF ended.ok
                 THEN sendInternal(ended.s, Relayer, "sidechainTerminated", ccm.from, 0,
                                   NoParams, FALSE, FALSE)
                 ELSE ended
        ELSE IF failed THEN Done(bounce(moved, ccm, "unavailable"))
        ELSE Done(addToOutbox(moved, ccm.to, ccm))

verifyRoutingRules(s, ccm, ccuFrom) ==
    /\ IF s.ledger.own = Mainchain THEN ccm.from = ccuFrom /\ ccm.status # "unavailable"
                                   ELSE ccm.to = s.ledger.own
    /\ ccm.to # ccm.from

\* The messages in order; a message is appended to the inbox at the very end.
processMessages(s, ccms, ccuFrom, overdue) ==
    LET Step(r, ccm) ==
            LET done == IF ccm.to = s.ledger.own THEN apply(r.s, ccm, ccuFrom)
                                                 ELSE forward(r.s, ccm, ccm.to \in overdue)
            IN  IF ~r.ok THEN r
                ELSE IF done.ok THEN Done([done.s EXCEPT !.inbox[ccuFrom] = @ + 1]) ELSE done
    IN  FoldLeft(Step, Done(s), ccms)

\* A CCU with messages needs a relayer's account for the message fee.
withRelayer(s, ccms) ==
    IF ccms = <<>> THEN s ELSE [s EXCEPT !.ledger = initializeUserAccount(@, Relayer, KLY)]

(* ------------------------------- behaviour ----------------------------- *)

\* A chain at genesis.
NewChain(c) ==
    [ledger |-> [own       |-> c,
                 users     |-> [k \in {k \in Address \X Tokens : TokenChain(k[2]) = c} |->
                                   [DefaultAccount EXCEPT !.available = Endowment]],
                 supply    |-> [t \in {t \in Tokens : TokenChain(t) = c} |->
                                   Endowment * Cardinality(Address)],
                 escrow    |-> NoKeys,
                 allTokens |-> c \notin Listing,
                 supported |-> NoKeys],
     nonce      |-> 0,
     status     |-> [d \in Chains |-> "none"],
     seen       |-> [d \in Chains |-> "none"],
     inbox      |-> [d \in Chains |-> 0],
     outbox     |-> [d \in Chains |-> <<>>],
     stored     |-> {},
     terminated |-> NoKeys,
     termOutbox |-> NoKeys]

\* Mutant: the partner is active before its registration message arrived.
RegisteredActive(s, p) ==
    LET ccm == Message(s.nonce, "registration", s.ledger.own, p, 0, "ok", NoParams)
    IN  [addToOutbox(s, p, ccm) EXCEPT
            !.status[p] = "active", !.nonce = @ + 1,
            !.ledger    = IF s.ledger.own = Mainchain THEN initializeEscrowAccount(@, p, KLY) ELSE @]

\* State s with the channel of a registered partner p and the registration
\* message that opens it.  The mainchain also gets an escrow account for p.
Registered(s, p) ==
    LET ccm == Message(s.nonce, "registration", s.ledger.own, p, 0, "ok", NoParams)
    IN  [addToOutbox(s, p, ccm) EXCEPT
            !.status[p] = "registered", !.nonce = @ + 1,
            !.ledger    = IF s.ledger.own = Mainchain THEN initializeEscrowAccount(@, p, KLY) ELSE @]

\* State s after both registration messages were exchanged with p, and after
\* every user of the sidechain got the endowment from the mainchain.
Opened(p, s) ==
    LET r     == [Registered(s, p) EXCEPT !.status[p] = "active", !.inbox[p] = 1]
        total == Endowment * Cardinality(Address)
        fund(a, l) == addAvailableBalance(initializeUserAccount(l, a, KLY), a, KLY, Endowment)
    IN  IF s.ledger.own = Mainchain
        THEN [r EXCEPT !.ledger = [addAmount(@, p, KLY, total) EXCEPT !.supply[KLY] = @ + total]]
        ELSE [r EXCEPT !.ledger = FoldSet(fund, @, Address)]

\* What a state root of chain c commits to, as far as other chains look.  An
\* active chain is "late" there when its last certificate is too old.
Certificate(c) ==
    [outbox |-> chain[c].outbox,
     stored |-> chain[c].stored,
     status |-> [d \in Chains |-> IF chain[c].status[d] = "active" /\ d \in late
                                  THEN "late" ELSE chain[c].status[d]]]

Init ==
    /\ chain  = [c \in Chains |->
                   IF c = Mainchain THEN FoldSet(Opened, NewChain(c), Open)
                   ELSE IF c \in Open THEN Opened(Mainchain, NewChain(c))
                   ELSE NewChain(c)]
    /\ late   = {}
    /\ cert   = [c \in Chains |-> Certificate(c)]
    /\ used   = [c \in Chains |-> {}]
    /\ halted = {}

Running(c) == c \in Honest \ halted

RegisterSidechain(c) ==
    /\ Running(Mainchain)
    /\ chain[Mainchain].status[c] = "none"
    /\ chain' = [chain EXCEPT ![Mainchain] = Registered(@, c)]
    /\ UNCHANGED <<cert, used, late, halted>>

RegisterMainchain(c) ==
    /\ Running(c)
    /\ chain[c].status[Mainchain] = "none"
    /\ chain' = [chain EXCEPT ![c] = Registered(@, Mainchain)]
    /\ UNCHANGED <<cert, used, late, halted>>

\* A crossChainTransfer transaction: amount and fee are checked together when
\* both are in KLY, and any error of send makes the transaction fail.
TransferCrossChain(c, to, sender, recipient, t, x, fee) ==
    LET s      == chain[c]
        taken  == addAvailableBalance(s.ledger, sender, t, 0 - x)
        moved  == IF isNativeToken(taken, t) THEN addAmount(taken, to, t, x) ELSE taken
        params == [token |-> t, amount |-> x, sender |-> sender, recipient |-> recipient]
        sent   == sendInternal([s EXCEPT !.ledger = moved], sender, "transfer", to, fee,
                               params, TRUE, to \in late)
    IN  /\ Running(c) /\ MapThenSumSet(LAMBDA d : chain[d].nonce, Chains) < MaxMessages
        /\ to # c /\ TokenChain(t) \in {c, to}
        /\ HasChannel(s, to)
        /\ getAvailableBalance(s.ledger, sender, t) >= x + IF t = KLY THEN fee ELSE 0
        /\ getAvailableBalance(s.ledger, sender, KLY) >= fee
        /\ userSubstoreExists(s.ledger, sender, t)
        /\ sent.ok
        /\ chain' = [chain EXCEPT ![c] = sent.s]
        /\ UNCHANGED <<cert, used, late, halted>>

\* The validators of c sign a certificate for its current state.
Certify(c) ==
    /\ c \notin halted
    /\ cert[c] # Certificate(c) \/ used[c] # {}
    /\ cert' = [cert EXCEPT ![c] = Certificate(c)]
    /\ used' = [used EXCEPT ![c] = {}]
    /\ UNCHANGED <<chain, late, halted>>

verifyCommon(d, c) ==
    /\ d \notin used[c]
    /\ chain[d].status[c] # "none"
    /\ isLive(chain[d], c, c \in late)

\* The next n messages of c's outbox, as cert[c] shows it, in a CCU on chain d.
\* What is thrown while messages are processed makes every node of d panic.
CrossChainUpdate(d, c, n) ==
    LET s       == chain[d]
        ccms    == SubSeq(cert[c].outbox[d], s.inbox[c] + 1, s.inbox[c] + n)
        routed  == \A i \in DOMAIN ccms : verifyRoutingRules(s, ccms[i], c)
        started == withRelayer(s, ccms)
        r       == IF routed THEN processMessages(started, ccms, c, late)
                             ELSE terminateChainInternal(started, c)
        after   == IF routed /\ c = Mainchain THEN [r.s EXCEPT !.seen = cert[c].status] ELSE r.s
    IN  /\ Running(d) /\ Mainchain \in {c, d} /\ c # d
        /\ verifyCommon(d, c)
        /\ s.inbox[c] + n <= Len(cert[c].outbox[d])
        /\ n > 0 => d \in cert[c].stored
        /\ routed \/ r.ok
        /\ chain'  = IF r.ok THEN [chain EXCEPT ![d] = after] ELSE chain
        /\ halted' = IF r.ok THEN halted ELSE halted \cup {d}
        /\ used'   = IF r.ok /\ routed /\ c \in Honest
                     THEN [used EXCEPT ![c] = @ \cup {d}] ELSE used
        /\ UNCHANGED <<cert, late>>

\* More than LIVENESS_LIMIT seconds go by without a certificate of c.
TimePasses(c) ==
    /\ c \in Slow \ late
    /\ chain[Mainchain].status[c] = "active"
    /\ late' = late \cup {c}
    /\ UNCHANGED <<chain, cert, used, halted>>

\* A transaction that throws has no effect.
TerminateSidechainForLiveness(c) ==
    LET ended == terminateChainInternal(chain[Mainchain], c)
    IN  /\ Running(Mainchain)
        /\ chain[Mainchain].status[c] \notin {"none", "terminated"}
        /\ ~isLive(chain[Mainchain], c, c \in late)
        /\ chain' = [chain EXCEPT ![Mainchain] = IF ended.ok THEN ended.s ELSE @]
        /\ UNCHANGED <<cert, used, late, halted>>

\* The methods by which another module of c changes the supported tokens.
ChangeSupport(c) ==
    LET l      == chain[c].ledger
        others == {TokenChain(t) : t \in Tokens}
    IN  /\ c \in Listing /\ Running(c)
        /\ \E next \in {supportAllTokens(l), removeAllTokensSupport(l)}
                       \cup {supportTokenID(l, t) : t \in Tokens}
                       \cup {supportAllTokensFromChainID(l, d) : d \in others}
                       \cup {removeAllTokensSupportFromChainID(l, d) :
                                d \in {d \in others : removableChain(l, d)}} :
               chain' = [chain EXCEPT ![c].ledger = next]
        /\ UNCHANGED <<cert, used, late, halted>>

(* ------------------------- a faulty sidechain -------------------------- *)

\* The validators of b put a message into the outbox of b and certify it.
FaultySend(b) ==
    LET sent == chain[b].outbox[Mainchain]
    IN  /\ b \in Faulty /\ Len(sent) < MaxFaulty
        /\ \E kind \in FaultyKinds, to \in Honest, fee \in Fees, t \in Tokens,
              x \in FaultyAmounts :
               /\ kind # "transfer" => x = Min(FaultyAmounts) /\ t = KLY
               /\ LET params == [token |-> t, amount |-> x, sender |-> Relayer,
                                 recipient |-> Relayer]
                      ccm    == Message(Len(sent), kind, b, to, fee, "ok", params)
                  IN  /\ chain' = [chain EXCEPT ![b] = addToOutbox(@, Mainchain, ccm)]
                      /\ cert'  = [cert EXCEPT ![b].outbox[Mainchain] = Append(sent, ccm)]
        /\ UNCHANGED <<used, late, halted>>

(* ------------------------------- recovery ------------------------------ *)

\* The state root of b shows how much of the mainchain's outbox b has included.
InitializeMessageRecovery(b, included) ==
    LET m == chain[Mainchain]
    IN  /\ Running(Mainchain)
        /\ b \in DOMAIN m.terminated \ DOMAIN m.termOutbox
        /\ included \in 0 .. Len(m.outbox[b])
        /\ chain' = [chain EXCEPT ![Mainchain].termOutbox =
               Put(@, b, [leaves |-> m.outbox[b], included |-> included])]
        /\ UNCHANGED <<cert, used, late, halted>>

\* The hooks get the message as it was sent.  Its sending chain is the mainchain
\* itself, which has no channel, so that they throw and it is discarded.
applyRecovery(s, ccm) == s

\* Here they take the message fee from the escrow of the sending chain, again.
forwardRecovery(s, ccm) ==
    IF verifyCrossChainMessage(s, ccm)
    THEN addToOutbox(beforeCrossChainMessageForwarding(s, ccm, FALSE), ccm.from,
                     Returned(ccm, "recovered", ccm.fee))
    ELSE s

\* The leaf of a recovered message is replaced in the terminated outbox.
RecoverMessage(b, i) ==
    LET m         == chain[Mainchain]
        ccm       == m.termOutbox[b].leaves[i]
        recovered == IF ccm.from = Mainchain THEN applyRecovery(m, ccm) ELSE forwardRecovery(m, ccm)
    IN  /\ Running(Mainchain)
        /\ b \in DOMAIN m.termOutbox
        /\ i \in m.termOutbox[b].included + 1 .. Len(m.termOutbox[b].leaves)
        /\ ccm.status = "ok" /\ ccm.to = b
        /\ isLive(m, ccm.from, ccm.from \in late)
        /\ chain' = [chain EXCEPT ![Mainchain] =
               [recovered EXCEPT !.termOutbox[b].leaves[i] = Returned(ccm, "recovered", ccm.fee)]]
        /\ UNCHANGED <<cert, used, late, halted>>

\* The root of a terminated sidechain, from the mainchain's root that c knew
\* when it terminated b, or from the newest one if c did not terminate b itself.
\* An account that is active there serves once LIVENESS_LIMIT has passed.
InitializeStateRecovery(c, b) ==
    LET s     == chain[c]
        known == b \in DOMAIN s.terminated
        shown == IF known THEN s.terminated[b].seen[b] ELSE s.seen[b]
        made  == createTerminatedStateAccount(s, b, TRUE)
    IN  /\ Running(c) /\ c # Mainchain /\ b \in Sidechains \ {c}
        /\ known => ~s.terminated[b].initialized
        /\ shown \in {"late", "terminated"} \/ (known /\ shown = "active")
        /\ chain' = [chain EXCEPT ![c] =
               IF known THEN [s EXCEPT !.terminated[b].initialized = TRUE] ELSE made.s]
        /\ UNCHANGED <<cert, used, late, halted>>

\* The root of the terminated chain b shows that address a has x of token t.  The
\* entry is overwritten under the root, so that it is recovered once.
RecoverState(c, b, a, t, x) ==
    LET s == chain[c]
        l == initializeUserAccount(s.ledger, a, t)
    IN  /\ Running(c) /\ b \in DOMAIN s.terminated
        /\ s.terminated[b].initialized /\ <<a, t>> \notin s.terminated[b].recovered
        /\ TokenChain(t) = c /\ getEscrowedAmount(s.ledger, b, t) >= x
        /\ chain' = [chain EXCEPT ![c] =
               [s EXCEPT !.ledger = addAvailableBalance(addAmount(l, b, t, 0 - x), a, t, x),
                         !.terminated[b].recovered = @ \cup {<<a, t>>}]]
        /\ UNCHANGED <<cert, used, late, halted>>

Next ==
    \/ \E c \in Sidechains : \/ RegisterSidechain(c) \/ RegisterMainchain(c)
                             \/ TimePasses(c) \/ TerminateSidechainForLiveness(c)
                             \/ FaultySend(c)
    \/ \E c \in Chains : ChangeSupport(c)
    \/ \E c, d \in Chains, a, b \in Address \ {Relayer} :
           \E t \in Tokens, x \in Amounts, fee \in Fees : TransferCrossChain(c, d, a, b, t, x, fee)
    \/ \E c \in Honest : Certify(c)
    \/ \E c, d \in Chains : \E n \in 0 .. Len(cert[c].outbox[d]) : CrossChainUpdate(d, c, n)
    \/ \E b \in Faulty : \E n \in 0 .. Len(chain[Mainchain].outbox[b]) :
           InitializeMessageRecovery(b, n) \/ RecoverMessage(b, n)
    \/ \E b, c \in Chains : InitializeStateRecovery(c, b)
    \/ \E b, c \in Chains, a \in Address \ {Relayer}, t \in Tokens, x \in Amounts :
           RecoverState(c, b, a, t, x)

Spec == Init /\ [][Next]_vars

Links == {<<x, y>> \in Honest \X Honest : x # y /\ Mainchain \in {x, y}}

(* ------------------------------ properties ----------------------------- *)

\* The state of every honest chain is well formed, and no balance, escrow or
\* supply is negative.
TypeOK ==
    /\ \A c \in Honest :
           LET s == chain[c]
           IN  /\ DOMAIN s.ledger.users \subseteq Address \X Tokens
               /\ \A k \in DOMAIN s.ledger.users :
                      s.ledger.users[k] \in [available : Nat, locked : [LockModules -> Nat]]
               /\ \A k \in DOMAIN s.ledger.escrow : s.ledger.escrow[k] \in Nat
               /\ \A t \in DOMAIN s.ledger.supply : s.ledger.supply[t] \in Nat
               /\ s.status \in [Chains -> {"none", "registered", "active", "terminated"}]
               /\ s.stored \subseteq Chains
    /\ used \in [Chains -> SUBSET Chains]
    /\ late \subseteq Sidechains /\ halted \subseteq Honest

\* The supply a chain records of a native token is what its users and its
\* escrow accounts hold, through every CCM, bounce, fee, burn and recovery.
SupplyExact ==
    \A c \in Honest, t \in Tokens :
        TokenChain(t) = c =>
            chain[c].ledger.supply[t] =
                UsersTotal(chain[c].ledger, t) + EscrowTotal(chain[c].ledger, t)

\* The messages of c for d that d has not included yet.
Pending(c, d) ==
    SubSeq(chain[c].outbox[d], chain[d].inbox[c] + 1, Len(chain[c].outbox[d]))

\* What the messages on the channel from x to y owe of token t: transfers
\* between c and d, and the fees, which the mainchain's escrow for d covers.
Owed(x, y, c, d, t) ==
    LET p == Pending(x, y)
    IN  MapThenSumSet(LAMBDA i :
            (IF p[i].kind = "transfer" /\ p[i].params.token = t /\ {p[i].from, p[i].to} = {c, d}
             THEN p[i].params.amount ELSE 0)
            + (IF t = KLY /\ d \in {x, y} THEN p[i].fee ELSE 0), DOMAIN p)

\* Twice the fees of the messages recovered for d: RecoverMessage takes such a
\* fee from the escrow for d and sends the message back with the fee in it.
RecoveredFees(c, d, t) ==
    LET o == chain[c].outbox[d]
    IN  IF t # KLY THEN 0
        ELSE MapThenSumSet(LAMBDA i : IF o[i].status = "recovered" THEN 2 * o[i].fee ELSE 0,
                           DOMAIN o)

\* What an honest chain d holds of a token of the honest chain c, and what is on
\* its way between them, is covered by c's escrow for d: no order of transfers,
\* bounces and forwards, and no faulty third chain, makes a claim on d worthless.
EscrowBacks ==
    \A c, d \in Honest, t \in Tokens :
        TokenChain(t) = c /\ c # d =>
            getEscrowedAmount(chain[c].ledger, d, t) + RecoveredFees(c, d, t) >=
                UsersTotal(chain[d].ledger, t)
                + MapThenSumSet(LAMBDA l : Owed(l[1], l[2], c, d, t), Links)

\* Every token is accounted for: within a chain by the supply, between chains by
\* the escrow, whatever a faulty third chain certifies.
TokensBacked == TypeOK /\ SupplyExact /\ EscrowBacks

\* A sidechain that the mainchain takes as active has registered the mainchain,
\* and its registration message is the first one of its inbox.
ActiveAfterRegistration ==
    \A c, d \in Honest :
        chain[c].status[d] = "active" =>
            /\ chain[d].status[c] \in {"registered", "active"}
            /\ chain[c].inbox[d] > 0
            /\ chain[d].outbox[c][1].kind = "registration"

\* A chain that was terminated stays terminated, and from then on nothing but
\* a recovery releases what is escrowed for it: its later messages are discarded.
TerminatedIsFinal ==
    [][\A c \in Honest : \A b \in DOMAIN chain[c].terminated :
           /\ b \in DOMAIN chain'[c].terminated
           /\ chain[c].status[b] = "terminated" => chain'[c].status[b] = "terminated"
           /\ \A t \in Tokens :
                  getEscrowedAmount(chain'[c].ledger, b, t) < getEscrowedAmount(chain[c].ledger, b, t)
                      => chain'[c].terminated[b].recovered # chain[c].terminated[b].recovered]_vars
=============================================================================
