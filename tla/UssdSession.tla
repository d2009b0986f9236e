----------------------------- MODULE UssdSession -----------------------------
(***************************************************************************)
(* The USSD session service: HandleUSSD3 of controller/ussd.go, run by one *)
(* goroutine per HTTP request, over sessions kept in Redis.                *)
(*                                                                         *)
(* A request reads its session (GET), decides (module UssdMenu), writes    *)
(* the session back (SET) and replies.  Nothing locks the session between  *)
(* the GET and the SET; either Redis call may fail; the process may crash  *)
(* and leave Redis as it is; and a key may expire at any moment.           *)
(***************************************************************************)
EXTENDS UssdMenu, FiniteSets

CONSTANTS
  Requests,  \* request goroutines that may be alive at the same time
  InFlight,  \* bound: how many of them the gateway has open on one session
  Failures,  \* what may fail: "redis" (a call returns an error), "crash"
  Repaired   \* defects of the session store taken as repaired, see below

(***************************************************************************)
(* The code is Repaired = {}.  Two defects keep it from ever finding a     *)
(* session it has itself created, which hides everything behind them, so   *)
(* each may be taken as repaired:                                          *)
(*   "miss"  GetRedisKey builds a new error with %v, so that the caller's  *)
(*           comparison with redis.Nil is never equal; repaired, a miss is *)
(*           seen as redis.Nil and the session is created.                 *)
(*   "key"   saveSession formats the int64 ID with %s, not the SessionID   *)
(*           that getOrCreateSession looks up; repaired, it is the latter. *)
(***************************************************************************)
ASSUME UssdSessionAssumption ==
  /\ IsFiniteSet(Requests)
  /\ InFlight \in Nat
  /\ Failures \subseteq {"redis", "crash"}
  /\ Repaired \subseteq {"miss", "key"}

VARIABLES
  redis,    \* the sessions stored, by key
  pc,       \* where each request is
  msg,      \* the form values of each request
  sess,     \* the session each request has read
  plan,     \* what each request has decided
  ledger,   \* payments processed (the payment API is an external call)
  mandate   \* history: how many payments the prompts of a session justify

vars == <<redis, pc, msg, sess, plan, ledger, mandate>>

Message == [sid : SessionIDs, phone : Phones, input : Inputs \cup {Empty}]

\* "ussd:session:" ++ SessionID, and "ussd:session:" ++ "%!s(int64=ID)".
LookupKey(sid) == <<"sid", sid>>
SaveKey(s) == IF "key" \in Repaired THEN LookupKey(s.session_id)
              ELSE <<"int64", s.id>>

Keys == {LookupKey(sid) : sid \in SessionIDs} \cup ({"int64"} \X Ids)

TypeOK ==
  /\ redis \in [Keys -> Session \cup {None}]
  /\ pc \in [Requests -> {"idle", "get", "process", "save", "reply"}]
  /\ msg \in [Requests -> Message \cup {None}]
  /\ sess \in [Requests -> Session \cup {None}]
  /\ plan \in [Requests -> Plan \cup {None}]
  /\ ledger \subseteq Payment
  /\ mandate \in [SessionIDs -> Int]
  /\ \A r \in Requests :
       /\ pc[r] # "idle" => msg[r] \in Message
       /\ pc[r] = "process" => sess[r] \in Session
       /\ pc[r] \in {"save", "reply"} => plan[r] \in Plan
       /\ pc[r] = "save" => plan[r].save \in Session

Init ==
  /\ redis = [k \in Keys |-> None]
  /\ pc = [r \in Requests |-> "idle"]
  /\ msg = [r \in Requests |-> None]
  /\ sess = [r \in Requests |-> None]
  /\ plan = [r \in Requests |-> None]
  /\ ledger = {}
  /\ mandate = [sid \in SessionIDs |-> 0]

Goto(r, label) == pc' = [pc EXCEPT ![r] = label]
Decide(r, p) == plan' = [plan EXCEPT ![r] = p]

-----------------------------------------------------------------------------
(***************************************************************************)
(* The gateway posts a request: a subscriber's answer, a first dial, or    *)
(* the repetition of either.  InFlight = 1 is a gateway that waits for the *)
(* answer before it posts again for the same session.                      *)
(***************************************************************************)
Open(sid) == {r \in Requests : pc[r] # "idle" /\ msg[r].sid = sid}

Receive(r) ==
  \E m \in [sid : SessionIDs, phone : Phones, input : Inputs] :
    /\ pc[r] = "idle"
    /\ Cardinality(Open(m.sid)) < InFlight
    /\ Goto(r, "get")
    /\ msg' = [msg EXCEPT ![r] = m]
    /\ UNCHANGED <<redis, sess, plan, ledger, mandate>>

\* The errors GetRedisKey may return for a key.
GetRedisKey(k) ==
  {IF redis[k] # None THEN "nil"
   ELSE IF "miss" \in Repaired THEN "redis.Nil" ELSE "error getting key"}
  \cup {e \in {"error getting key"} : "redis" \in Failures}

\* getOrCreateSession, up to the SET of a created session.  What Redis holds
\* is what json.Marshal wrote, which json.Unmarshal reads back as it was: the
\* branch for a corrupted session (ussd.go:121-124) has no input here.
GetSession(r) ==
  LET k == LookupKey(msg[r].sid) IN
  /\ pc[r] = "get"
  /\ \E err \in GetRedisKey(k) :
       \/ /\ err \notin {"nil", "redis.Nil"}
          /\ Decide(r, Say("END unavailable"))
          /\ Goto(r, "reply")
          /\ UNCHANGED sess
       \/ /\ err = "nil"
          /\ sess' = [sess EXCEPT ![r] = redis[k]]
          /\ Goto(r, "process")
          /\ UNCHANGED plan
       \/ /\ err = "redis.Nil"
          /\ \E id \in Ids :
               Decide(r, SaveThen(NewSession(id, msg[r].sid, msg[r].phone),
                                  "CON main"))
          /\ Goto(r, "save")
          /\ UNCHANGED sess
  /\ UNCHANGED <<redis, msg, ledger, mandate>>

\* The session is read once more, as another request may have left it.
ProcessMutant(r) ==
  LET now == redis[LookupKey(msg[r].sid)]
      p == processUSSDInput(IF now = None THEN sess[r] ELSE now, msg[r].input)
      sid == msg[r].sid IN
  /\ pc[r] = "process"
  /\ Decide(r, p)
  /\ Goto(r, IF p.save = None THEN "reply" ELSE "save")
  /\ IF p.pay = None THEN UNCHANGED <<ledger, mandate>>
     ELSE /\ ledger' = ledger \cup {p.pay}
          /\ mandate' = [mandate EXCEPT ![sid] = @ - 1]
  /\ UNCHANGED <<redis, msg, sess>>

(***************************************************************************)
(* processUSSDInput: the handler of the current menu decides, and makes    *)
(* its payment before the session is saved.                                *)
(***************************************************************************)
Process(r) ==
  LET p == processUSSDInput(sess[r], msg[r].input)
      sid == msg[r].sid IN
  /\ pc[r] = "process"
  /\ Decide(r, p)
  /\ Goto(r, IF p.save = None THEN "reply" ELSE "save")
  /\ IF p.pay = None THEN UNCHANGED <<ledger, mandate>>
     ELSE /\ ledger' = ledger \cup {p.pay}
          /\ mandate' = [mandate EXCEPT ![sid] = @ - 1]
  /\ UNCHANGED <<redis, msg, sess>>

(***************************************************************************)
(* The mandate of a session.  A saved prompt for confirmation justifies    *)
(* one payment of each request that may read it while it stands, InFlight  *)
(* at most; once the session is saved without it, only of the requests     *)
(* that have already read it.  A payment whose session could not be saved  *)
(* leaves the prompt standing, and so gives its own mandate back.          *)
(***************************************************************************)
AtMost(n, bound) == IF n > bound THEN bound ELSE n

SaveMandate(r, left) ==
  IF plan[r].next \in Authorising THEN InFlight
  ELSE AtMost(left, Cardinality(Open(msg[r].sid)) - 1)

Unsaved(sid) ==
  {r \in Open(sid) : pc[r] = "save" /\ plan[r].pay # None}

\* Only what the handler has changed is written, over what Redis now holds.
StoreMutant(r) ==
  LET s == plan[r].save
      now == redis[SaveKey(s)] IN
  /\ Marshals(s)
  /\ redis' = [redis EXCEPT ![SaveKey(s)] =
                 IF now = None \/ sess[r] = None THEN s
                 ELSE [f \in DOMAIN s |-> IF s[f] = sess[r][f] THEN now[f]
                                         ELSE s[f]]]
  /\ mandate' = [mandate EXCEPT ![msg[r].sid] = SaveMandate(r, @)]

\* The SET takes effect in Redis.
Store(r) ==
  LET s == plan[r].save IN
  /\ Marshals(s)
  /\ redis' = [redis EXCEPT ![SaveKey(s)] = s]
  /\ mandate' = [mandate EXCEPT ![msg[r].sid] = SaveMandate(r, @)]

\* saveSession succeeds; the handler replies, or goes on with the next one.
SaveSession(r) ==
  /\ pc[r] = "save"
  /\ Store(r)
  /\ IF plan[r].next = "handleBalanceMenu"
     THEN /\ sess' = [sess EXCEPT ![r] = plan[r].save]
          /\ msg' = [msg EXCEPT ![r].input = Empty]
          /\ Goto(r, "process")
     ELSE /\ Goto(r, "reply")
          /\ UNCHANGED <<sess, msg>>
  /\ UNCHANGED <<plan, ledger>>

(***************************************************************************)
(* saveSession returns an error: json.Marshal refused the session, or the  *)
(* SET failed -- which leaves it open whether Redis had applied it.        *)
(***************************************************************************)
SaveFails(r) ==
  /\ pc[r] = "save"
  /\ \/ /\ ~Marshals(plan[r].save) \/ "redis" \in Failures
        /\ mandate' = [mandate EXCEPT ![msg[r].sid] =
                         IF plan[r].pay = None THEN @
                         ELSE AtMost(@ + 1, InFlight)]
        /\ UNCHANGED redis
     \/ "redis" \in Failures /\ Store(r)
  /\ Decide(r, Say("END not saved"))
  /\ Goto(r, "reply")
  /\ UNCHANGED <<msg, sess, ledger>>

\* A panic that no middleware recovers from is never answered.
ReplyMutant(r) ==
  /\ pc[r] = "reply" /\ plan[r].next # "panic"
  /\ Goto(r, "idle")
  /\ msg' = [msg EXCEPT ![r] = None]
  /\ sess' = [sess EXCEPT ![r] = None]
  /\ plan' = [plan EXCEPT ![r] = None]
  /\ UNCHANGED <<redis, ledger, mandate>>

\* The response goes out (a panic is turned into a 500 by middleware.Recover).
Reply(r) ==
  /\ pc[r] = "reply"
  /\ Goto(r, "idle")
  /\ msg' = [msg EXCEPT ![r] = None]
  /\ sess' = [sess EXCEPT ![r] = None]
  /\ plan' = [plan EXCEPT ![r] = None]
  /\ UNCHANGED <<redis, ledger, mandate>>

-----------------------------------------------------------------------------
\* The 30 minutes of a key have passed since it was last written.
Expire(k) ==
  /\ redis[k] # None
  /\ redis' = [redis EXCEPT ![k] = None]
  /\ UNCHANGED <<pc, msg, sess, plan, ledger, mandate>>

\* The process dies and is started again; Redis and the ledger remain.
Crash ==
  /\ "crash" \in Failures
  /\ \E r \in Requests : pc[r] # "idle"
  /\ mandate' = [sid \in SessionIDs |->
                   AtMost(mandate[sid] + Cardinality(Unsaved(sid)), InFlight)]
  /\ pc' = [r \in Requests |-> "idle"]
  /\ msg' = [r \in Requests |-> None]
  /\ sess' = [r \in Requests |-> None]
  /\ plan' = [r \in Requests |-> None]
  /\ UNCHANGED <<redis, ledger>>

Handle(r) == GetSession(r) \/ Process(r) \/ SaveSession(r) \/ SaveFails(r)
             \/ Reply(r)

Next == \/ \E r \in Requests : Receive(r) \/ Handle(r)
        \/ \E k \in Keys : Expire(k)
        \/ Crash

Spec == Init /\ [][Next]_vars

\* A goroutine runs on: no handler waits for a lock, and the Redis client
\* bounds each of its calls with a timeout.
FairSpec == Spec /\ \A r \in Requests : WF_vars(Handle(r))

-----------------------------------------------------------------------------
\* Whatever the interleaving of the requests, the failures and the crashes,
\* Redis only ever holds a session some handler can go on with, and every
\* number in it is finite: the cross-check of saveSession (ussd.go:149-169)
\* with what wallet.go:59-338 reads back.
StoredSessionsWellFormed ==
  \A k \in Keys : redis[k] # None => /\ WellFormed(redis[k])
                                     /\ Marshals(redis[k])

\* The unchecked type assertions of wallet.go:105-113, 209 and 309 never
\* panic: the only panic is the slice in getAccountInfo (wallet.go:24), for
\* a subscriber number of fewer than nine characters.
PanicOnlyOnShortPhone ==
  \A r \in Requests :
    pc[r] = "reply" /\ plan[r].next = "panic"
      => sess[r] # None /\ AccountPanics(sess[r])

\* Money moves only in amounts the handlers have checked, positive, finite
\* and within the balance, and transfers only to a number that was checked
\* (wallet.go:66-117, 252-316) -- although the check and the payment are made
\* by different requests, with the session in Redis in between.
LedgerSound ==
  \A p \in ledger :
    /\ Payable(p.amount)
    /\ p.kind = "transfer" => ValidRecipient(p.to)

\* Each saved prompt for confirmation is good for one payment of each request
\* in flight (for exactly one, when the gateway sends them one at a time),
\* and a payment is repeated only after its session could not be saved.
NoUnmandatedPayment == \A sid \in SessionIDs : mandate[sid] >= 0

\* A session that Redis holds in the balance menu is stranded there when no
\* request will store another menu: none is about to save it, or to run
\* handleBalanceMenu without an input (ussd.go:196-200, wallet.go:36-48).
InBalance(sid) == /\ redis[LookupKey(sid)] # None
                  /\ redis[LookupKey(sid)].current_menu = "balance"

MovesOn(r) == \/ pc[r] = "save"
              \/ /\ pc[r] = "process" /\ sess[r].current_menu = "balance"
                 /\ msg[r].input = Empty

Stranded(sid) == InBalance(sid) /\ \A r \in Open(sid) : ~MovesOn(r)

\* The step in which a request dies, panics or fails to save its session.
Breaks(r) == /\ pc[r] # "reply"
             /\ \/ pc'[r] = "idle"
                \/ pc'[r] = "reply" /\ plan'[r].next \in {"panic", "END not saved"}

\* Showing the balance saves the session in a menu that answers every input
\* but an empty one with the main menu (wallet.go:54), and saves it back.  A
\* session is stranded in between only by the failure, the panic or the death
\* of one of its requests: never by the way requests interleave.
BalanceIsTransient ==
  [][\A sid \in SessionIDs :
       Stranded(sid)' => \/ Stranded(sid)
                         \/ \E r \in Open(sid) : Breaks(r)]_vars

\* The payment that a session asks its subscriber to confirm, and the inputs
\* that confirm it (wallet.go:109-117, 282-316).
Asks(s) ==
  IF s = None THEN None
  ELSE IF s.current_menu = "transfer" /\ s.transfer_step = "confirm"
  THEN [kind |-> "transfer", from |-> s.phone_number,
        to |-> s.transfer_recipient, amount |-> s.transfer_amount]
  ELSE IF s.current_menu = "withdraw" /\ s.withdraw_step = "method"
  THEN [kind |-> "withdrawal", from |-> s.phone_number, to |-> None,
        amount |-> s.withdraw_amount]
  ELSE None

Confirms(s, input) ==
  input.txt \in IF s.current_menu = "transfer" THEN {"1"} ELSE {"1", "2", "3"}

Acceptable ==
  {p \in Payment : Payable(p.amount) /\ (p.kind = "transfer" => ValidRecipient(p.to))}

\* What a request has read is asked about until it has decided, even if the
\* session has expired or been overwritten since.
Asked == {Asks(redis[k]) : k \in Keys}
         \cup {Asks(sess[r]) : r \in {q \in Requests : pc[q] = "process"}}

Confirmed == {Asks(sess[r]) : r \in {q \in Requests :
                pc[q] = "process" /\ Confirms(sess[q], msg[q].input)}}

\* A payment is made only of what a session in Redis has asked about, exactly as
\* it asked, and by a request that confirms it; what is asked about was checked
\* by the requests before (wallet.go:59-338).
Dialogue == INSTANCE UssdDialogue WITH
  asked <- Asked \ {None}, confirmed <- Confirmed \ {None}, paid <- ledger

PaysAsAskedAndConfirmed == Dialogue!Spec

\* Every request is answered: in particular the handler that calls another
\* (ussd.go:196-200) does not do so for ever.
EveryRequestAnswered == \A r \in Requests : pc[r] = "get" ~> pc[r] = "idle"

-----------------------------------------------------------------------------
\* ussd.go:107, "getOrCreateSession retrieves an existing session or creates a
\* new one": with a Redis that never fails the service is never unavailable.
RetrievesOrCreates ==
  \A r \in Requests : pc[r] = "reply" => plan[r].next # "END unavailable"

\* ussd.go:149, "saveSession persists session data to Redis": a session that
\* is stored can be looked up by its SessionID.
PersistedSessionsAreFound ==
  \A k \in Keys :
    redis[k] # None => redis[LookupKey(redis[k].session_id)] # None
=============================================================================
