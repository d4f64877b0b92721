------------------------- MODULE CheckRequestProofs -------------------------
(***************************************************************************)
(* Proofs about checks on their way through the process that hold for any  *)
(* number of requests, every timeout, every quota and any number of        *)
(* scheduler passes, stalls, stops and restarts.                           *)
(***************************************************************************)
EXTENDS CheckRequest, TLAPS

-----------------------------------------------------------------------------
(* Where a request can be                                                  *)

\* What a request can be answered with.
Answers == {"refused", "allowed", "denied", "error", "lost"}

Replies(pc) ==
  IF pc = "load" THEN {NoReply, "sha", "error"}
  ELSE {NoReply, "NOSCRIPT", "allowed", "denied", "crossed", "error"}

\* A command and what has come of it.
Command(x) ==
  /\ x = [pc |-> x.pc, retried |-> x.retried, reply |-> x.reply, left |-> x.left]
  /\ x.pc \in {"load", "eval"} /\ x.retried \in BOOLEAN
  /\ x.reply \in Replies(x.pc) /\ x.left \in 0 .. Timeout

Ended(x) == \E a \in Answers : x = Done(a)
Inserting(x) == x = [pc |-> "thread", reply |-> x.reply]

ReqOK(x) == x = Idle \/ Command(x) \/ Ended(x) \/ Inserting(x)

\* The handlers, commands and clocks are of their types.
TypeInv ==
  /\ DOMAIN req = Requests
  /\ \A q \in Requests : ReqOK(req[q])
  /\ server \in {"up", "stalled", "down"} /\ cached \in BOOLEAN
  /\ stray \subseteq Requests
  /\ pass \in Nat
  /\ charges \in [Requests -> Nat]
  /\ age \in [Requests -> 0 .. MaxAge] /\ blocked \in [Requests -> 0 .. MaxAge]

\* A handler sends a command or ends; no other request moves.
LEMMA AwaitMoves ==
  ASSUME TypeInv, NEW q \in Requests, NEW pc \in {"load", "eval"},
         NEW retried \in BOOLEAN, Await(q, pc, retried)
  PROVE  /\ req'[q].pc = pc /\ req'[q].retried = retried
         /\ req'[q].reply = NoReply /\ req'[q].left = Timeout
         /\ Command(req'[q])
         /\ DOMAIN req' = Requests
         /\ \A o \in Requests : o # q => req'[o] = req[o]
BY TimesAssumption DEF TypeInv, Await, Deadline, Command, Replies

\* Ending a request leaves it with its answer and moves no other.
LEMMA FinishMoves ==
  ASSUME TypeInv, NEW q \in Requests, NEW answer \in Answers, Finish(q, answer)
  PROVE  /\ req'[q] = Done(answer) /\ Ended(req'[q])
         /\ req'[q].pc = "done" /\ req'[q].answer = answer
         /\ DOMAIN req' = Requests
         /\ \A o \in Requests : o # q => req'[o] = req[o]
BY DEF TypeInv, Finish, Ended, Done

\* Redis replies to a command; no other request moves.
LEMMA ReplyMoves ==
  ASSUME TypeInv, NEW q \in Requests, OnRedis(q), NEW reply \in Replies(req[q].pc),
         req' = [req EXCEPT ![q].reply = reply]
  PROVE  /\ req'[q].pc = req[q].pc /\ req'[q].retried = req[q].retried
         /\ req'[q].reply = reply /\ req'[q].left = req[q].left
         /\ Command(req[q]) /\ Command(req'[q])
         /\ DOMAIN req' = Requests
         /\ \A o \in Requests : o # q => req'[o] = req[o]
<1>1. Command(req[q])
  BY DEF TypeInv, ReqOK, OnRedis, Idle, Ended, Done, Inserting
<1>2. req'[q] = [req[q] EXCEPT !.reply = reply]
  BY DEF TypeInv
<1>3. req'[q] = [pc |-> req[q].pc, retried |-> req[q].retried, reply |-> reply,
                 left |-> req[q].left]
  BY <1>1, <1>2 DEF Command
<1> QED
  BY <1>1, <1>3 DEF TypeInv, Command

\* What a step does to the request that moves, and that it moves no other.
Moves(q) ==
  /\ DOMAIN req' = Requests /\ ReqOK(req'[q])
  /\ \A o \in Requests : o # q => req'[o] = req[o]

\* A step of a handler moves its own request and no other.
LEMMA HandlerMoves ==
  ASSUME TypeInv, NEW q \in Requests, Arrive(q) \/ Handle(q) \/ Insert(q)
  PROVE  Moves(q)
<1> USE DEF Moves, ReqOK
<1>1. ASSUME NEW pc \in {"load", "eval"}, NEW retried \in BOOLEAN, Await(q, pc, retried)
      PROVE  Moves(q)
  BY <1>1, AwaitMoves
<1>2. ASSUME NEW answer \in Answers, Finish(q, answer)
      PROVE  Moves(q)
  BY <1>2, FinishMoves
<1>3. OnRedis(q) => req[q].retried \in BOOLEAN
  BY DEF TypeInv, OnRedis, Command, Idle, Ended, Done, Inserting
<1>4. CASE Arrive(q)
  BY <1>1, <1>2, <1>4 DEF Arrive, Answers
<1>5. CASE Registered(q) \/ Reload(q)
  BY <1>1, <1>3, <1>5 DEF Registered, Replied, Reload, OnRedis
<1>6. CASE Decide(q)
  <2>1. CASE req[q].reply = "crossed"
    BY <1>6, <2>1 DEF Decide, TypeInv, Inserting
  <2>2. CASE req[q].reply # "crossed"
    BY <1>2, <1>6, <2>2 DEF Decide, Replied, Answers
  <2> QED
    BY <2>1, <2>2
<1>7. CASE Resume(q) \/ Fail(q) \/ TimeOut(q)
  BY <1>2, <1>7 DEF Resume, Fail, TimeOut, Answers
<1>8. CASE Insert(q)
  <2>1. req[q] = [pc |-> "thread", reply |-> NoReply]
    BY <1>8 DEF Insert, TypeInv, Command, Idle, Ended, Done, Inserting
  <2>2. req'[q] = [pc |-> "thread", reply |-> "inserted"]
    BY <1>8, <2>1 DEF Insert, TypeInv
  <2> QED
    BY <1>8, <2>2 DEF Insert, TypeInv, Inserting
<1> QED
  BY <1>4, <1>5, <1>6, <1>7, <1>8 DEF Handle

\* A reply of Redis moves the request it is for and no other.
LEMMA RedisMoves ==
  ASSUME TypeInv, NEW q \in Requests, Load(q) \/ EvalSha(q) \/ Refuse(q)
  PROVE  Moves(q)
<1>1. CASE Load(q)
  BY <1>1, ReplyMoves DEF Load, Pending, Moves, ReqOK, Replies
<1>2. CASE EvalSha(q)
  BY <1>2, ReplyMoves DEF EvalSha, Pending, Moves, ReqOK, Replies, Decision
<1>3. CASE Refuse(q)
  BY <1>3, ReplyMoves DEF Refuse, Pending, OnRedis, Moves, ReqOK, Replies
<1> QED
  BY <1>1, <1>2, <1>3

\* A handler that raises ends its request and puts the cause on record.
LEMMA RaiseMoves ==
  ASSUME TypeInv, NEW q \in Requests, LookupFails(q) \/ SourceFails(q)
  PROVE  /\ Moves(q) /\ req'[q].pc = "done" /\ req'[q].answer = "error"
         /\ req[q] = Idle \/ (req[q].pc = "eval" /\ req[q].reply = "NOSCRIPT")
         /\ UNCHANGED <<server, cached, stray, pass, charges, age, blocked, disturbed>>
         /\ failures \subseteq failures' /\ Failed(q)'
<1>1. PICK cause \in Causes : Raise(q, cause)
  BY DEF LookupFails, SourceFails, Causes
<1>2. Finish(q, "error") /\ failures' = failures \cup {<<q, cause>>} /\ disturbed' = disturbed
  BY <1>1 DEF Raise, Meets
<1>3. Moves(q) /\ req'[q].pc = "done" /\ req'[q].answer = "error"
  BY <1>2, FinishMoves DEF Answers, Moves, ReqOK
<1>4. req[q] = Idle \/ (req[q].pc = "eval" /\ req[q].reply = "NOSCRIPT")
  BY DEF LookupFails, SourceFails, Reloads
<1>5. UNCHANGED <<server, cached, stray, pass, charges, age, blocked>>
  BY DEF LookupFails, SourceFails, redis, clocks
<1> QED
  BY <1>2, <1>3, <1>4, <1>5 DEF Failed

\* A command that Redis refuses gets an error for its reply, if anyone awaits it.
LEMMA RejectMoves ==
  ASSUME TypeInv, NEW q \in Requests, Reject(q)
  PROVE  /\ Moves(q) /\ req'[q].pc = req[q].pc
         /\ \/ req'[q] = req[q] /\ q \in stray
            \/ /\ Pending(q) /\ Command(req[q]) /\ req'[q].reply = "error"
               /\ req'[q].retried = req[q].retried /\ req'[q].left = req[q].left
         /\ UNCHANGED <<server, cached, pass, charges, age, blocked, disturbed>>
         /\ stray' = stray \ {q}
         /\ failures \subseteq failures' /\ Failed(q)'
<1>1. /\ UNCHANGED <<server, cached, pass, charges, age, blocked, disturbed>>
      /\ stray' = stray \ {q} /\ failures' = failures \cup {<<q, "command">>}
  BY DEF Reject, Meets, redis, clocks
<1>2. failures \subseteq failures' /\ Failed(q)'
  BY <1>1 DEF Failed, Causes
<1>3. CASE Pending(q)
  <2>1. OnRedis(q) /\ req' = [req EXCEPT ![q].reply = "error"]
    BY <1>3 DEF Reject, Pending
  <2>2. "error" \in Replies(req[q].pc)
    BY DEF Replies
  <2> QED
    BY <1>1, <1>2, <1>3, <2>1, <2>2, ReplyMoves DEF Moves, ReqOK
<1>4. CASE ~Pending(q)
  BY <1>1, <1>2, <1>4 DEF Reject, Moves, TypeInv
<1> QED
  BY <1>3, <1>4

\* What Stop, Restart and Tick make of a command.
LEMMA CommandMoves ==
  ASSUME TypeInv, NEW q \in Requests, OnRedis(q)
  PROVE  /\ Command(req[q])
         /\ [req[q] EXCEPT !.reply = "error"] =
              [pc |-> req[q].pc, retried |-> req[q].retried, reply |-> "error",
               left |-> req[q].left]
         /\ [req[q] EXCEPT !.left = CountDown(@)] =
              [pc |-> req[q].pc, retried |-> req[q].retried, reply |-> req[q].reply,
               left |-> CountDown(req[q].left)]
         /\ Command([req[q] EXCEPT !.reply = "error"])
         /\ Command([req[q] EXCEPT !.left = CountDown(@)])
<1>1. Command(req[q])
  BY DEF TypeInv, ReqOK, OnRedis, Idle, Ended, Done, Inserting
<1>2. [req[q] EXCEPT !.reply = "error"] =
        [pc |-> req[q].pc, retried |-> req[q].retried, reply |-> "error",
         left |-> req[q].left]
  BY <1>1 DEF Command
<1>3. [req[q] EXCEPT !.left = CountDown(@)] =
        [pc |-> req[q].pc, retried |-> req[q].retried, reply |-> req[q].reply,
         left |-> CountDown(req[q].left)]
  BY <1>1 DEF Command
<1>4. CountDown(req[q].left) \in 0 .. Timeout
  BY <1>1, TimesAssumption DEF Command, CountDown
<1>5. Command([req[q] EXCEPT !.reply = "error"])
  BY <1>1, <1>2 DEF Command, Replies
<1>6. Command([req[q] EXCEPT !.left = CountDown(@)])
  BY <1>1, <1>3, <1>4 DEF Command
<1> QED
  BY <1>1, <1>2, <1>3, <1>5, <1>6

\* The bound on ages is above what a check may wait for.
LEMMA MaxAgeLarge == MaxAge \in Nat /\ MaxAge > 4 * Timeout
<1>1. PassTicks * MaxPasses \in Nat
  BY TimesAssumption, RequestBounds
<1> QED
  BY <1>1, TimesAssumption DEF MaxAge

\* The state has its type.
LEMMA TypeInvariant == Spec => []TypeInv
<1>1. Init => TypeInv
  BY MaxAgeLarge DEF Init, TypeInv, ReqOK
<1>2. TypeInv /\ [Next]_vars => TypeInv'
  <2> SUFFICES ASSUME TypeInv, [Next]_vars
               PROVE  TypeInv'
    OBVIOUS
  <2>1. ASSUME NEW q \in Requests, Arrive(q) \/ Handle(q) \/ Insert(q)
        PROVE  TypeInv'
    <3>1. Moves(q)
      BY <2>1, HandlerMoves
    <3>2. UNCHANGED <<server, cached, pass, charges, age, blocked>>
      BY <2>1 DEF Arrive, Handle, Insert, Registered, Reload, Decide, Resume, Fail,
                  TimeOut, redis, clocks
    <3>3. stray' \subseteq Requests
      BY <2>1 DEF TypeInv, Arrive, Handle, Insert, Registered, Reload, Decide, Resume,
                  Fail, TimeOut
    <3> QED
      BY <3>1, <3>2, <3>3 DEF TypeInv, Moves
  <2>2. ASSUME NEW q \in Requests, Load(q) \/ EvalSha(q) \/ Refuse(q)
        PROVE  TypeInv'
    <3>1. Moves(q)
      BY <2>2, RedisMoves
    <3>2. UNCHANGED <<server, stray, pass, age, blocked>> /\ cached' \in BOOLEAN
      BY <2>2 DEF Load, EvalSha, RunScript, Refuse, redis, clocks, TypeInv
    <3>3. charges' \in [Requests -> Nat]
      BY <2>2 DEF Load, EvalSha, RunScript, Refuse, TypeInv
    <3> QED
      BY <3>1, <3>2, <3>3 DEF TypeInv, Moves
  <2>3. ASSUME NEW q \in Requests, EvalStray(q)
        PROVE  TypeInv'
    BY <2>3 DEF EvalStray, RunScript, TypeInv, clocks
  <2>4. CASE Pass
    BY <2>4, TimesAssumption DEF Pass, TypeInv, redis, clocks
  <2>5. CASE Stall \/ Start
    BY <2>5 DEF Stall, Start, Fault, TypeInv, clocks
  <2>6. CASE Stop
    <3>1. PICK broken \in SUBSET {q \in Requests : OnRedis(q)} :
            req' = [q \in Requests |->
                      IF q \in broken THEN [req[q] EXCEPT !.reply = "error"] ELSE req[q]]
      BY <2>6 DEF Stop
    <3>2. \A q \in Requests : ReqOK(req'[q])
      BY <3>1, CommandMoves DEF ReqOK, TypeInv
    <3> QED
      BY <2>6, <3>1, <3>2 DEF Stop, TypeInv, clocks
  <2>7. CASE Restart
    <3>1. \A q \in Requests : ReqOK(req'[q])
      BY <2>7 DEF Restart, ReqOK, TypeInv, Ended, Answers
    <3> QED
      BY <2>7, <3>1 DEF Restart, TypeInv, clocks
  <2>8. CASE Tick
    <3>1. \A q \in Requests : ReqOK(req'[q])
      BY <2>8, CommandMoves DEF Tick, ReqOK, TypeInv
    <3>2. \A n \in 0 .. MaxAge : CountUp(n) \in 0 .. MaxAge
      BY MaxAgeLarge DEF CountUp
    <3>3. age' \in [Requests -> 0 .. MaxAge] /\ blocked' \in [Requests -> 0 .. MaxAge]
      BY <2>8, <3>2 DEF Tick, TypeInv
    <3>4. pass' \in Nat
      BY <2>8 DEF Tick, TypeInv, CountDown
    <3> QED
      BY <2>8, <3>1, <3>3, <3>4 DEF Tick, TypeInv, redis
  <2>9. CASE UNCHANGED vars
    BY <2>9 DEF TypeInv, vars, redis, clocks
  <2>10. ASSUME NEW q \in Requests, LookupFails(q) \/ SourceFails(q)
         PROVE  TypeInv'
    BY <2>10, RaiseMoves DEF TypeInv, Moves
  <2>11. ASSUME NEW q \in Requests, Reject(q)
         PROVE  TypeInv'
    BY <2>11, RejectMoves DEF TypeInv, Moves
  <2> QED
    BY <2>1, <2>2, <2>3, <2>4, <2>5, <2>6, <2>7, <2>8, <2>9, <2>10, <2>11 DEF Next
<1> QED
  BY <1>1, <1>2, PTL DEF Spec

-----------------------------------------------------------------------------
(* What a request was charged                                              *)

\* A request whose script has not run, or has denied it.
Unpaid(x) ==
  \/ x.pc \in {"idle", "load"}
  \/ x.pc = "eval" /\ x.reply \in {NoReply, "NOSCRIPT", "denied"}
  \/ x.pc = "done" /\ x.answer \in {"refused", "denied"}

\* A request that the script has allowed.
Paid(x) ==
  \/ x.pc = "eval" /\ x.reply \in {"allowed", "crossed"}
  \/ x.pc = "thread"
  \/ x.pc = "done" /\ x.answer = "allowed"

\* A request that ended without an answer of the script.
GaveUp(x) == x.pc = "done" /\ x.answer \in {"error", "lost"}

\* The script that was left behind has not run, and is the only one that may.
ChargeOK(q) ==
  /\ charges[q] <= 1
  /\ Unpaid(req[q]) => charges[q] = 0
  /\ Paid(req[q]) => charges[q] = 1
  /\ q \in stray => charges[q] = 0 /\ GaveUp(req[q])

\* No request is charged twice, and each as its stage says.
ChargeInv == \A q \in Requests : ChargeOK(q)

\* A step of a handler keeps its request charged as its answer says.
LEMMA HandlerCharges ==
  ASSUME TypeInv, NEW q \in Requests, ChargeOK(q), Arrive(q) \/ Handle(q) \/ Insert(q)
  PROVE  ChargeOK(q)'
<1>1. charges' = charges
  BY DEF Arrive, Handle, Insert, Registered, Reload, Decide, Resume, Fail, TimeOut
<1>2. q \notin stray
  <2>1. CASE Arrive(q) \/ Insert(q)
    <3>1. req[q] = Idle \/ req[q].pc = "thread"
      BY <2>1 DEF Arrive, Insert
    <3> QED
      BY <3>1 DEF Idle, ChargeOK, GaveUp
  <2>2. CASE Handle(q)
    BY <2>2 DEF Handle, Registered, Replied, Reload, Reloads, Decide, Resume, Fail, TimeOut,
                OnRedis, ChargeOK, GaveUp
  <2> QED
    BY <2>1, <2>2
<1>3. CASE Arrive(q)
  <2>1. charges[q] = 0
    BY <1>3 DEF Arrive, Idle, ChargeOK, Unpaid
  <2>2. \/ req'[q].pc \in {"load", "eval"} /\ req'[q].reply = NoReply
        \/ req'[q] = Done("refused")
    <3>1. CASE Finish(q, "refused")
      BY <3>1, FinishMoves DEF Answers
    <3>2. CASE Await(q, IF registered THEN "eval" ELSE "load", FALSE)
      <4>1. PICK pc \in {"load", "eval"} : Await(q, pc, FALSE)
        BY <3>2
      <4> QED
        BY <4>1, AwaitMoves
    <3> QED
      BY <1>3, <3>1, <3>2 DEF Arrive
  <2>3. stray' = stray
    BY <1>3 DEF Arrive
  <2> QED
    BY <1>1, <1>2, <2>1, <2>2, <2>3 DEF Done, NoReply, ChargeOK, Unpaid, Paid, GaveUp
<1>4. CASE Registered(q) \/ Reload(q)
  <2>1. charges[q] = 0
    BY <1>4 DEF Registered, Replied, Reload, Reloads, ChargeOK, Unpaid
  <2>2. req[q].retried \in BOOLEAN
    BY <1>4, CommandMoves DEF Registered, Replied, Reload, Reloads, OnRedis,
                                 Command
  <2>3. req'[q].pc \in {"load", "eval"} /\ req'[q].reply = NoReply
    <3>1. PICK pc \in {"load", "eval"}, retried \in BOOLEAN : Await(q, pc, retried)
      BY <1>4, <2>2 DEF Registered, Reload
    <3> QED
      BY <3>1, AwaitMoves
  <2>4. stray' = stray
    BY <1>4 DEF Registered, Reload
  <2> QED
    BY <1>1, <1>2, <2>1, <2>3, <2>4 DEF NoReply, ChargeOK, Unpaid, Paid, GaveUp
<1>5. CASE Decide(q)
  <2>1. stray' = stray
    BY <1>5 DEF Decide
  <2>2. CASE req[q].reply = "crossed"
    <3>1. req'[q] = [pc |-> "thread", reply |-> NoReply]
      BY <1>5, <2>2 DEF Decide, TypeInv
    <3> QED
      BY <1>1, <1>2, <1>5, <2>1, <2>2, <3>1 DEF Decide, Replied, ChargeOK, Unpaid, Paid, GaveUp
  <2>3. CASE req[q].reply # "crossed"
    <3>1. req'[q] = Done(req[q].reply)
      BY <1>5, <2>3, FinishMoves DEF Decide, Replied, Answers
    <3> QED
      BY <1>1, <1>2, <1>5, <2>1, <2>3, <3>1 DEF Decide, Replied, Done, ChargeOK, Unpaid, Paid, GaveUp
  <2> QED
    BY <2>2, <2>3
<1>6. CASE Resume(q)
  <2>1. req'[q] = Done("allowed") /\ stray' = stray
    BY <1>6, FinishMoves DEF Resume, Answers
  <2> QED
    BY <1>1, <1>2, <1>6, <2>1 DEF Resume, Replied, Done, ChargeOK, Unpaid, Paid, GaveUp
<1>7. CASE Fail(q)
  <2>1. req'[q] = Done("error") /\ stray' = stray
    BY <1>7, FinishMoves DEF Fail, Answers
  <2> QED
    BY <1>1, <1>2, <2>1 DEF Done, ChargeOK, Unpaid, Paid, GaveUp
<1>8. CASE TimeOut(q)
  <2>1. req'[q] = Done("error")
    BY <1>8, FinishMoves DEF TimeOut, Answers
  <2>2. q \in stray' => charges[q] = 0
    BY <1>2, <1>8 DEF TimeOut, Left, ChargeOK, Unpaid
  <2> QED
    BY <1>1, <2>1, <2>2 DEF Done, ChargeOK, Unpaid, Paid, GaveUp
<1>9. CASE Insert(q)
  <2>1. req'[q].pc = "thread"
    BY <1>9 DEF Insert, TypeInv, ReqOK, Idle, Command, Ended, Done, Inserting
  <2>2. stray' = stray
    BY <1>9 DEF Insert
  <2> QED
    BY <1>1, <1>2, <1>9, <2>1, <2>2 DEF Insert, ChargeOK, Unpaid, Paid, GaveUp
<1> QED
  BY <1>3, <1>4, <1>5, <1>6, <1>7, <1>8, <1>9 DEF Handle

\* Redis runs the script of a request once.
LEMMA ScriptCharges ==
  ASSUME TypeInv, NEW q \in Requests, ChargeOK(q),
         Load(q) \/ EvalSha(q) \/ EvalStray(q) \/ Refuse(q)
  PROVE  ChargeOK(q)'
<1>1. charges[q] \in Nat
  BY DEF TypeInv
<1>2. CASE Load(q)
  <2>1. req'[q].pc = "load"
    BY <1>2, ReplyMoves DEF Load, Pending, Replies
  <2> QED
    BY <1>2, <2>1 DEF Load, Pending, ChargeOK, Unpaid, Paid, GaveUp
<1>3. CASE EvalSha(q)
  <2>1. req'[q].pc = "eval" /\ req'[q].reply = Decision
    <3>1. OnRedis(q) /\ req[q].pc = "eval" /\ req' = [req EXCEPT ![q].reply = Decision]
      BY <1>3 DEF EvalSha, Pending
    <3>2. Decision \in Replies("eval")
      BY DEF Decision, Replies
    <3> QED
      BY <3>1, <3>2, ReplyMoves
  <2>2. charges[q] = 0 /\ q \notin stray /\ stray' = stray
    BY <1>3 DEF EvalSha, Pending, ChargeOK, Unpaid, Paid, GaveUp
  <2>3. charges'[q] = IF Admits THEN 1 ELSE 0
    BY <1>3, <2>2 DEF EvalSha, RunScript, TypeInv
  <2>4. IF Admits THEN Decision \in {"crossed", "allowed"}
        ELSE Decision \in {"NOSCRIPT", "denied"}
    BY DEF Decision, Crosses, Admits
  <2> QED
    BY <2>1, <2>2, <2>3, <2>4 DEF ChargeOK, Unpaid, Paid, GaveUp, NoReply
<1>4. CASE EvalStray(q)
  <2>1. GaveUp(req[q]) /\ req' = req /\ q \notin stray'
    BY <1>4 DEF EvalStray, ChargeOK
  <2>2. charges'[q] \in {0, 1}
    BY <1>4 DEF EvalStray, RunScript, TypeInv, ChargeOK
  <2> QED
    BY <2>1, <2>2 DEF ChargeOK, Unpaid, Paid, GaveUp
<1>5. CASE Refuse(q)
  <2>1. req'[q].pc = req[q].pc /\ req'[q].reply = "error"
    <3>1. OnRedis(q) /\ req' = [req EXCEPT ![q].reply = "error"]
      BY <1>5 DEF Refuse, Pending
    <3>2. "error" \in Replies(req[q].pc)
      BY DEF Replies
    <3> QED
      BY <3>1, <3>2, ReplyMoves
  <2> QED
    BY <1>5, <2>1 DEF Refuse, Pending, OnRedis, NoReply, ChargeOK, Unpaid, Paid, GaveUp
<1> QED
  BY <1>2, <1>3, <1>4, <1>5

\* An error charges nothing.
LEMMA ErrorCharges ==
  ASSUME TypeInv, NEW q \in Requests, NEW o \in Requests, ChargeOK(o),
         LookupFails(q) \/ SourceFails(q) \/ Reject(q)
  PROVE  ChargeOK(o)'
<1>1. CASE o # q
  <2>1. req'[o] = req[o] /\ charges' = charges /\ (o \in stray' => o \in stray)
    BY <1>1, RaiseMoves, RejectMoves DEF Moves
  <2> QED
    BY <2>1 DEF ChargeOK, Unpaid, Paid, GaveUp
<1>2. CASE o = q /\ (LookupFails(q) \/ SourceFails(q))
  <2>1. /\ req'[q].pc = "done" /\ req'[q].answer = "error"
        /\ charges' = charges /\ stray' = stray
    BY <1>2, RaiseMoves
  <2> QED
    BY <1>2, <2>1 DEF ChargeOK, Unpaid, Paid, GaveUp
<1>3. CASE o = q /\ Reject(q)
  <2>1. charges' = charges /\ q \notin stray' /\ req'[q].pc = req[q].pc
        /\ (req'[q] = req[q] \/ (req'[q].reply = "error" /\ OnRedis(q)
                                  /\ req[q].reply = NoReply))
    BY <1>3, RejectMoves DEF Pending
  <2> QED
    BY <1>3, <2>1 DEF ChargeOK, Unpaid, Paid, GaveUp, OnRedis, NoReply
<1> QED
  BY <1>1, <1>2, <1>3

\* The steps of one request leave the charges of the others alone.
LEMMA OthersCharges ==
  ASSUME TypeInv, NEW q \in Requests, NEW o \in Requests, o # q, ChargeOK(o),
         \/ Arrive(q) \/ Handle(q) \/ Insert(q)
         \/ Load(q) \/ EvalSha(q) \/ EvalStray(q) \/ Refuse(q)
  PROVE  ChargeOK(o)'
<1>1. req'[o] = req[o]
  BY HandlerMoves, RedisMoves DEF Moves, EvalStray
<1>2. charges'[o] = charges[o]
  BY DEF Arrive, Handle, Insert, Registered, Reload, Decide, Resume, Fail, TimeOut,
         Load, EvalSha, EvalStray, RunScript, Refuse, TypeInv
<1>3. o \in stray' <=> o \in stray
  BY DEF Arrive, Handle, Insert, Registered, Reload, Decide, Resume, Fail, TimeOut,
         Load, EvalSha, EvalStray, Refuse
<1> QED
  BY <1>1, <1>2, <1>3 DEF ChargeOK, Unpaid, Paid, GaveUp

\* ChargeInv holds in every behaviour.
LEMMA ChargeInvariant == Spec => []ChargeInv
<1>1. Init => ChargeInv
  BY DEF Init, ChargeInv, ChargeOK, Unpaid, Paid, GaveUp, Idle
<1>2. TypeInv /\ ChargeInv /\ [Next]_vars => ChargeInv'
  <2> SUFFICES ASSUME TypeInv, ChargeInv, [Next]_vars, NEW o \in Requests
               PROVE  ChargeOK(o)'
    BY DEF ChargeInv
  <2>o. ChargeOK(o)
    BY DEF ChargeInv
  <2>1. ASSUME NEW q \in Requests,
               \/ Arrive(q) \/ Handle(q) \/ Insert(q)
               \/ Load(q) \/ EvalSha(q) \/ EvalStray(q) \/ Refuse(q)
        PROVE  ChargeOK(o)'
    BY <2>o, <2>1, HandlerCharges, ScriptCharges, OthersCharges
  <2>2. CASE Pass \/ Stall \/ Start \/ UNCHANGED vars
    BY <2>o, <2>2 DEF Pass, Stall, Start, vars, ChargeOK, Unpaid, Paid, GaveUp
  <2>3. CASE Stop
    <3>1. PICK broken \in SUBSET {q \in Requests : OnRedis(q)} :
            req' = [q \in Requests |->
                      IF q \in broken THEN [req[q] EXCEPT !.reply = "error"] ELSE req[q]]
      BY <2>3 DEF Stop
    <3>2. CASE o \in broken
      <4>1. req'[o].pc = req[o].pc /\ req'[o].reply = "error" /\ OnRedis(o)
        BY <3>1, <3>2, CommandMoves
      <4> QED
        BY <2>o, <2>3, <4>1 DEF Stop, ChargeOK, Unpaid, Paid, GaveUp, OnRedis, NoReply
    <3>3. CASE o \notin broken
      <4>1. req'[o] = req[o]
        BY <3>1, <3>3
      <4> QED
        BY <2>o, <2>3, <4>1 DEF Stop, ChargeOK, Unpaid, Paid, GaveUp
    <3> QED
      BY <3>2, <3>3
  <2>4. CASE Restart
    <3>1. CASE Waiting(o)
      BY <2>o, <2>4, <3>1 DEF Restart, ChargeOK, Unpaid, Paid, GaveUp, Waiting, OnRedis,
                              Left, Done
    <3>2. CASE ~Waiting(o)
      BY <2>o, <2>4, <3>2 DEF Restart, ChargeOK, Unpaid, Paid, GaveUp, Waiting, OnRedis,
                              Left
    <3> QED
      BY <3>1, <3>2
  <2>5. CASE Tick
    <3>1. CASE OnRedis(o)
      <4>1. req'[o].pc = req[o].pc /\ req'[o].reply = req[o].reply
        BY <2>5, <3>1, CommandMoves DEF Tick
      <4> QED
        BY <2>o, <2>5, <3>1, <4>1 DEF Tick, ChargeOK, Unpaid, Paid, GaveUp, OnRedis
    <3>2. CASE ~OnRedis(o)
      BY <2>o, <2>5, <3>2 DEF Tick, ChargeOK, Unpaid, Paid, GaveUp
    <3> QED
      BY <3>1, <3>2
  <2>6. ASSUME NEW q \in Requests, LookupFails(q) \/ SourceFails(q) \/ Reject(q)
        PROVE  ChargeOK(o)'
    BY <2>o, <2>6, ErrorCharges
  <2> QED
    BY <2>1, <2>2, <2>3, <2>4, <2>5, <2>6 DEF Next
<1> QED
  BY <1>1, <1>2, TypeInvariant, PTL DEF Spec

\* Whatever is reloaded, retried, cut off by a timeout or read late, a check is
\* charged at most once, and the handler's answer tells whether it was.
THEOREM ChargesMatchAnswers == Spec => []ChargedAsAnswered
<1>1. ChargeInv => ChargedAsAnswered
  BY DEF ChargeInv, ChargeOK, Unpaid, Paid, ChargedAsAnswered, Answered
<1> QED
  BY <1>1, ChargeInvariant, PTL

-----------------------------------------------------------------------------
(* How long a request waits                                                *)

\* The commands before this one, each for the length of the timeout.
Earlier(x) ==
  IF x.retried
  THEN IF x.pc = "load" THEN 2 * Timeout ELSE 3 * Timeout
  ELSE IF x.pc = "load" THEN 0 ELSE Timeout

\* What the commands up to now may have taken.
Budget(x) ==
  IF x.pc \in {"load", "eval"} THEN Earlier(x) + (Timeout - x.left) ELSE 4 * Timeout

\* The age is what the timeouts of the commands so far account for, and the passes.
WaitOK(q) ==
  /\ req[q].pc = "idle" => age[q] = 0
  /\ age[q] <= Budget(req[q]) + blocked[q]

WaitInv == \A q \in Requests : WaitOK(q)

\* A budget is four timeouts at most.
LEMMA BudgetBounds ==
  ASSUME NEW x, ReqOK(x)
  PROVE  Budget(x) \in 0 .. 4 * Timeout
<1>1. CASE Command(x)
  <2>1. x.left \in 0 .. Timeout /\ x.retried \in BOOLEAN /\ x.pc \in {"load", "eval"}
    BY <1>1 DEF Command
  <2> QED
    BY <2>1, TimesAssumption DEF Budget, Earlier
<1>2. CASE ~Command(x)
  <2>1. x.pc \notin {"load", "eval"}
    BY <1>2 DEF ReqOK, Idle, Ended, Done, Inserting
  <2> QED
    BY <2>1, TimesAssumption DEF Budget
<1> QED
  BY <1>1, <1>2

\* A step of a handler keeps the age of its request within its budget.
LEMMA HandlerBudget ==
  ASSUME TypeInv, NEW q \in Requests, WaitOK(q), Arrive(q) \/ Handle(q) \/ Insert(q)
  PROVE  WaitOK(q)'
<1>1. age' = age /\ blocked' = blocked
  BY DEF Arrive, Handle, Insert, Registered, Reload, Decide, Resume, Fail, TimeOut, clocks
<1>2. age[q] \in Nat /\ blocked[q] \in Nat
  BY MaxAgeLarge DEF TypeInv
<1>3. Moves(q)
  BY HandlerMoves
<1>4. Budget(req[q]) \in 0 .. 4 * Timeout /\ Budget(req'[q]) \in 0 .. 4 * Timeout
  BY <1>3, BudgetBounds DEF TypeInv, Moves
<1>5. req'[q].pc # "idle" /\ (req[q].pc = "idle" \/ Budget(req'[q]) >= Budget(req[q]))
  <2>1. CASE Arrive(q)
    <3>1. req[q].pc = "idle"
      BY <2>1 DEF Arrive, Idle
    <3>2. CASE Finish(q, "refused")
      BY <3>1, <3>2, FinishMoves DEF Answers
    <3>3. CASE Await(q, IF registered THEN "eval" ELSE "load", FALSE)
      <4>1. PICK pc \in {"load", "eval"} : Await(q, pc, FALSE)
        BY <3>3
      <4> QED
        BY <3>1, <4>1, AwaitMoves
    <3> QED
      BY <2>1, <3>2, <3>3 DEF Arrive
  <2>2. CASE Registered(q)
    <3>1. req[q].pc = "load"
      BY <2>2 DEF Registered, Replied
    <3>2. Command(req[q])
      BY <3>1, CommandMoves DEF OnRedis
    <3>3. req[q].retried \in BOOLEAN /\ req[q].left \in 0 .. Timeout
      BY <3>2 DEF Command
    <3>4. PICK retried \in BOOLEAN : retried = req[q].retried
      BY <3>3
    <3>5. Await(q, "eval", retried)
      BY <2>2, <3>4 DEF Registered
    <3>6. req'[q].pc = "eval" /\ req'[q].retried = req[q].retried /\ req'[q].left = Timeout
      BY <3>4, <3>5, AwaitMoves
    <3> QED
      BY <3>1, <3>3, <3>6, TimesAssumption DEF Budget, Earlier
  <2>3. CASE Reload(q)
    <3>1. req[q].pc = "eval" /\ ~req[q].retried
      BY <2>3 DEF Reload, Reloads
    <3>2. Command(req[q])
      BY <3>1, CommandMoves DEF OnRedis
    <3>3. req[q].left \in 0 .. Timeout
      BY <3>2 DEF Command
    <3>4. req'[q].pc = "load" /\ req'[q].retried = TRUE /\ req'[q].left = Timeout
      BY <2>3, AwaitMoves DEF Reload
    <3> QED
      BY <3>1, <3>3, <3>4, TimesAssumption DEF Budget, Earlier
  <2>4. CASE Decide(q) \/ Resume(q) \/ Fail(q) \/ TimeOut(q) \/ Insert(q)
    <3>1. req'[q].pc \in {"thread", "done"}
      <4>1. ASSUME NEW answer \in Answers, Finish(q, answer)
            PROVE  req'[q].pc = "done"
        BY <4>1, FinishMoves
      <4>2. CASE Decide(q)
        <5>1. CASE req[q].reply = "crossed"
          BY <4>2, <5>1 DEF Decide, TypeInv
        <5>2. CASE req[q].reply # "crossed"
          BY <4>1, <4>2, <5>2 DEF Decide, Replied, Answers
        <5> QED
          BY <5>1, <5>2
      <4>3. CASE Resume(q) \/ Fail(q) \/ TimeOut(q)
        BY <4>1, <4>3 DEF Resume, Fail, TimeOut, Answers
      <4>4. CASE Insert(q)
        BY <4>4 DEF Insert, TypeInv, ReqOK, Idle, Command, Ended, Done, Inserting
      <4> QED
        BY <2>4, <4>2, <4>3, <4>4
    <3>2. Budget(req'[q]) = 4 * Timeout
      BY <3>1 DEF Budget
    <3> QED
      BY <1>4, <3>1, <3>2, TimesAssumption
  <2> QED
    BY <2>1, <2>2, <2>3, <2>4 DEF Handle
<1> HIDE DEF Budget
<1> QED
  BY <1>1, <1>2, <1>4, <1>5, TimesAssumption DEF WaitOK

\* WaitInv holds in every behaviour.
LEMMA WaitInvariant == Spec => []WaitInv
<1>1. Init => WaitInv
  BY TimesAssumption DEF Init, WaitInv, WaitOK, Idle, Budget
<1>2. TypeInv /\ TypeInv' /\ WaitInv /\ [Next]_vars => WaitInv'
  <2> SUFFICES ASSUME TypeInv, TypeInv', WaitInv, [Next]_vars, NEW o \in Requests
               PROVE  WaitOK(o)'
    BY DEF WaitInv
  <2>o. WaitOK(o)
    BY DEF WaitInv
  <2>t. /\ age[o] \in 0 .. MaxAge /\ blocked[o] \in 0 .. MaxAge
        /\ age'[o] \in 0 .. MaxAge /\ blocked'[o] \in 0 .. MaxAge
        /\ Budget(req[o]) \in 0 .. 4 * Timeout
        /\ Budget(req'[o]) \in 0 .. 4 * Timeout
    BY BudgetBounds DEF TypeInv
  <2>s. ASSUME age'[o] = age[o], blocked'[o] = blocked[o],
               req'[o].pc = req[o].pc, Budget(req'[o]) = Budget(req[o])
        PROVE  WaitOK(o)'
    BY <2>o, <2>s DEF WaitOK
  <2>1. ASSUME NEW q \in Requests, Arrive(q) \/ Handle(q) \/ Insert(q)
        PROVE  WaitOK(o)'
    <3>1. CASE o = q
      BY <2>o, <2>1, <3>1, HandlerBudget
    <3>2. CASE o # q
      <4>1. req'[o] = req[o]
        BY <2>1, <3>2, HandlerMoves DEF Moves
      <4>2. age' = age /\ blocked' = blocked
        BY <2>1 DEF Arrive, Handle, Insert, Registered, Reload, Decide, Resume, Fail,
                    TimeOut, clocks
      <4> QED
        BY <2>s, <4>1, <4>2
    <3> QED
      BY <3>1, <3>2
  <2>2. ASSUME NEW q \in Requests, Load(q) \/ EvalSha(q) \/ Refuse(q)
        PROVE  WaitOK(o)'
    <3>1. age' = age /\ blocked' = blocked
      BY <2>2 DEF Load, EvalSha, Refuse, clocks
    <3>2. CASE o = q
      <4>1. PICK reply : /\ OnRedis(q) /\ reply \in Replies(req[q].pc)
                         /\ req' = [req EXCEPT ![q].reply = reply]
        BY <2>2 DEF Load, EvalSha, Refuse, Pending, OnRedis, Replies, Decision
      <4>2. /\ req'[o].pc = req[o].pc /\ req'[o].retried = req[o].retried
            /\ req'[o].left = req[o].left
        BY <3>2, <4>1, ReplyMoves
      <4> QED
        BY <2>s, <3>1, <4>2 DEF Budget, Earlier
    <3>3. CASE o # q
      BY <2>s, <2>2, <3>1, <3>3, RedisMoves DEF Moves
    <3> QED
      BY <3>2, <3>3
  <2>3. ASSUME NEW q \in Requests, EvalStray(q)
        PROVE  WaitOK(o)'
    BY <2>s, <2>3 DEF EvalStray, clocks
  <2>4. CASE Pass \/ Stall \/ Start \/ UNCHANGED vars
    BY <2>s, <2>4 DEF Pass, Stall, Start, vars, clocks
  <2>5. CASE Stop
    <3>1. PICK broken \in SUBSET {q \in Requests : OnRedis(q)} :
            req' = [q \in Requests |->
                      IF q \in broken THEN [req[q] EXCEPT !.reply = "error"] ELSE req[q]]
      BY <2>5 DEF Stop
    <3>2. age' = age /\ blocked' = blocked
      BY <2>5 DEF Stop, clocks
    <3>3. CASE o \in broken
      <4>1. req'[o] = [pc |-> req[o].pc, retried |-> req[o].retried, reply |-> "error",
                       left |-> req[o].left]
        BY <3>1, <3>3, CommandMoves
      <4> QED
        BY <2>s, <3>2, <4>1 DEF Budget, Earlier
    <3>4. CASE o \notin broken
      BY <2>s, <3>1, <3>2, <3>4
    <3> QED
      BY <3>3, <3>4
  <2>6. CASE Restart
    <3>1. age' = age /\ blocked' = blocked
      BY <2>6 DEF Restart, clocks
    <3>2. CASE Waiting(o)
      <4>1. req'[o] = Done("lost")
        BY <2>6, <3>2 DEF Restart
      <4>2. Budget(req'[o]) = 4 * Timeout /\ req'[o].pc # "idle"
        BY <4>1 DEF Budget, Done
      <4> QED
        BY <2>o, <2>t, <3>1, <4>2, MaxAgeLarge, TimesAssumption DEF WaitOK
    <3>3. CASE ~Waiting(o)
      BY <2>s, <2>6, <3>1, <3>3 DEF Restart
    <3> QED
      BY <3>2, <3>3
  <2>7. CASE Tick
    <3>1. CASE ~OnRedis(o)
      BY <2>s, <2>7, <3>1 DEF Tick, TypeInv
    <3>2. CASE OnRedis(o)
      <4>1. Command(req[o]) /\ req[o].left \in 0 .. Timeout
        BY <3>2, CommandMoves DEF Command
      <4>2. req'[o] = [pc |-> req[o].pc, retried |-> req[o].retried,
                       reply |-> req[o].reply, left |-> CountDown(req[o].left)]
        BY <2>7, <3>2, CommandMoves DEF Tick
      <4>3. age'[o] = CountUp(age[o])
        BY <2>7, <3>2 DEF Tick
      <4>4. Budget(req'[o]) = Budget(req[o]) + (req[o].left - CountDown(req[o].left))
        BY <3>2, <4>1, <4>2, TimesAssumption DEF Budget, Earlier, OnRedis, CountDown
      <4>5. req'[o].pc # "idle"
        BY <3>2, <4>2 DEF OnRedis
      <4>6. CASE LoopFree
        <5>1. req[o].left # 0
          BY <2>7, <3>2, <4>6 DEF Tick, Settled, Due
        <5>2. blocked'[o] = blocked[o]
          BY <2>7, <4>6 DEF Tick
        <5>3. Budget(req'[o]) = Budget(req[o]) + 1
          BY <4>1, <4>4, <5>1, <2>t, TimesAssumption DEF CountDown
        <5> QED
          BY <2>o, <2>t, <4>3, <4>5, <5>2, <5>3, MaxAgeLarge DEF WaitOK, CountUp
      <4>7. CASE ~LoopFree
        <5>1. blocked'[o] = CountUp(blocked[o])
          BY <2>7, <3>2, <4>7 DEF Tick
        <5>2. Budget(req'[o]) >= Budget(req[o])
          BY <4>1, <4>4, <2>t, TimesAssumption DEF CountDown
        <5> QED
          BY <2>o, <2>t, <4>3, <4>5, <5>1, <5>2, MaxAgeLarge DEF WaitOK, CountUp
      <4> QED
        BY <4>6, <4>7
    <3> QED
      BY <3>1, <3>2
  <2>8. ASSUME NEW q \in Requests, LookupFails(q) \/ SourceFails(q)
        PROVE  WaitOK(o)'
    <3>1. age' = age /\ blocked' = blocked
      BY <2>8, RaiseMoves
    <3>2. CASE o = q
      <4>1. req'[o].pc = "done"
        BY <2>8, <3>2, RaiseMoves
      <4>2. Budget(req'[o]) = 4 * Timeout
        BY <4>1 DEF Budget
      <4> QED
        BY <2>o, <2>t, <3>1, <4>1, <4>2, MaxAgeLarge, TimesAssumption DEF WaitOK
    <3>3. CASE o # q
      BY <2>s, <2>8, <3>1, <3>3, RaiseMoves DEF Moves
    <3> QED
      BY <3>2, <3>3
  <2>9. ASSUME NEW q \in Requests, Reject(q)
        PROVE  WaitOK(o)'
    <3>1. age' = age /\ blocked' = blocked
      BY <2>9, RejectMoves
    <3>2. CASE o = q
      <4>1. /\ req'[o].pc = req[o].pc
            /\ \/ req'[o] = req[o]
               \/ req'[o].retried = req[o].retried /\ req'[o].left = req[o].left
        BY <2>9, <3>2, RejectMoves
      <4> QED
        BY <2>s, <3>1, <4>1 DEF Budget, Earlier
    <3>3. CASE o # q
      BY <2>s, <2>9, <3>1, <3>3, RejectMoves DEF Moves
    <3> QED
      BY <3>2, <3>3
  <2> QED
    BY <2>1, <2>2, <2>3, <2>4, <2>5, <2>6, <2>7, <2>8, <2>9 DEF Next
<1> QED
  BY <1>1, <1>2, TypeInvariant, PTL DEF Spec

\* A check waits for no more than four commands of Redis, each for no longer than the
\* timeout of the client, and what the scheduler passes on its loop add to that.
THEOREM WaitsEnd == Spec => []WaitBounded
<1>1. TypeInv /\ WaitInv => WaitBounded
  <2> SUFFICES ASSUME TypeInv, WaitInv, NEW q \in Requests
               PROVE  age[q] <= 4 * Timeout + blocked[q]
    BY DEF WaitBounded
  <2>1. Budget(req[q]) \in 0 .. 4 * Timeout
    BY BudgetBounds DEF TypeInv
  <2>2. age[q] \in Nat /\ blocked[q] \in Nat
    BY MaxAgeLarge DEF TypeInv
  <2>3. age[q] <= Budget(req[q]) + blocked[q]
    BY DEF WaitInv, WaitOK
  <2> QED
    BY <2>1, <2>2, <2>3, TimesAssumption
<1> QED
  BY <1>1, TypeInvariant, WaitInvariant, PTL

-----------------------------------------------------------------------------
(* Where an error comes from                                               *)

\* Redis has the script: it has just replied so, or a reload is behind this EVALSHA.
Loaded(x) ==
  \/ x.pc = "load" /\ x.reply = "sha"
  \/ x.pc = "eval" /\ x.retried /\ x.reply = NoReply

\* A reply that the handler does not recover from.
Fatal(x) ==
  \/ x.pc \in {"load", "eval"} /\ x.reply = "error"
  \/ x.pc = "eval" /\ x.retried /\ x.reply = "NOSCRIPT"
  
\* A timer runs down only while Redis is stalled or a pass holds the loop.
FaultOK(q) ==
  /\ server # "up" /\ Waiting(q) => q \in disturbed
  /\ Loaded(req[q]) => cached \/ q \in disturbed
  /\ Fatal(req[q]) => q \in disturbed \/ Failed(q)
  /\ OnRedis(q) => q \in disturbed \/ blocked[q] >= Timeout - req[q].left
  /\ Answered(q, {"error"}) => q \in disturbed \/ Failed(q) \/ blocked[q] >= Timeout

FaultInv == \A q \in Requests : FaultOK(q)

\* A step of a handler gives up only for a cause that is on record.
LEMMA HandlerFaults ==
  ASSUME TypeInv, NEW q \in Requests, FaultOK(q), Arrive(q) \/ Handle(q) \/ Insert(q)
  PROVE  FaultOK(q)'
<1>1. UNCHANGED <<server, cached, blocked, failures>> /\ (Failed(q)' <=> Failed(q))
  BY DEF Arrive, Handle, Insert, Registered, Reload, Decide, Resume, Fail, TimeOut,
         redis, clocks, causes, Failed
<1>2. blocked[q] \in Nat
  BY MaxAgeLarge DEF TypeInv
<1>3. OnRedis(q) => Command(req[q]) /\ req[q].left \in 0 .. Timeout /\ req[q].retried \in BOOLEAN
  BY CommandMoves DEF Command
<1>4. ASSUME req'[q].pc = "thread", server # "up" => q \in disturbed'
      PROVE  FaultOK(q)'
  BY <1>1, <1>4 DEF FaultOK, Loaded, Fatal, OnRedis, Waiting, Answered
<1>5. ASSUME req'[q].pc \in {"load", "eval"}, req'[q].reply = NoReply, req'[q].left = Timeout,
             server # "up" => q \in disturbed',
             req'[q].pc = "eval" /\ req'[q].retried => cached \/ q \in disturbed'
      PROVE  FaultOK(q)'
  <2>1. ~Fatal(req'[q]) /\ (Loaded(req'[q]) => cached \/ q \in disturbed')
    BY <1>5 DEF Fatal, Loaded, NoReply
  <2>2. blocked[q] >= Timeout - req'[q].left
    BY <1>2, <1>5, TimesAssumption
  <2> QED
    BY <1>1, <1>5, <2>1, <2>2 DEF FaultOK, Answered, Waiting, OnRedis
<1>6. ASSUME NEW answer \in Answers, Finish(q, answer),
             answer = "error" => q \in disturbed' \/ Failed(q) \/ blocked[q] >= Timeout
      PROVE  FaultOK(q)'
  <2>1. req'[q].pc = "done" /\ req'[q].answer = answer
    BY <1>6, FinishMoves
  <2> QED
    BY <1>1, <1>6, <2>1 DEF FaultOK, Loaded, Fatal, OnRedis, Waiting, Answered
<1>7. CASE Arrive(q)
  <2>1. server # "up" => q \in disturbed'
    BY <1>7 DEF Arrive
  <2>2. CASE Finish(q, "refused")
    BY <1>6, <2>2 DEF Answers
  <2>3. CASE Await(q, IF registered THEN "eval" ELSE "load", FALSE)
    <3>1. PICK pc \in {"load", "eval"} : Await(q, pc, FALSE)
      BY <2>3
    <3>2. /\ req'[q].pc \in {"load", "eval"} /\ ~req'[q].retried
          /\ req'[q].reply = NoReply /\ req'[q].left = Timeout
      BY <3>1, AwaitMoves
    <3> QED
      BY <1>5, <2>1, <3>2
  <2> QED
    BY <1>7, <2>2, <2>3 DEF Arrive
<1>8. CASE Registered(q)
  <2>1. req[q].pc = "load" /\ req[q].reply = "sha" /\ disturbed' = disturbed
    BY <1>8 DEF Registered, Replied, causes
  <2>2. PICK retried \in BOOLEAN : Await(q, "eval", retried)
    BY <1>3, <1>8, <2>1 DEF Registered, OnRedis
  <2>3. req'[q].pc = "eval" /\ req'[q].reply = NoReply /\ req'[q].left = Timeout
    BY <2>2, AwaitMoves
  <2>4. (server # "up" => q \in disturbed) /\ (cached \/ q \in disturbed)
    BY <2>1 DEF FaultOK, Waiting, OnRedis, Loaded
  <2> QED
    BY <1>5, <2>1, <2>3, <2>4
<1>9. CASE Reload(q)
  <2>1. req[q].pc = "eval" /\ disturbed' = disturbed /\ Await(q, "load", TRUE)
    BY <1>9 DEF Reload, Reloads, causes
  <2>2. req'[q].pc = "load" /\ req'[q].reply = NoReply /\ req'[q].left = Timeout
    BY <2>1, AwaitMoves
  <2>3. server # "up" => q \in disturbed
    BY <2>1 DEF FaultOK, Waiting, OnRedis
  <2> QED
    BY <1>5, <2>1, <2>2, <2>3
<1>10. CASE Decide(q)
  <2>1. CASE req[q].reply = "crossed"
    <3>1. req'[q].pc = "thread"
      BY <1>10, <2>1 DEF Decide, TypeInv
    <3>2. server # "up" => q \in disturbed'
      BY <1>10 DEF Decide, Replied, FaultOK, Waiting, OnRedis, causes
    <3> QED
      BY <1>4, <3>1, <3>2
  <2>2. CASE req[q].reply # "crossed"
    <3>1. req[q].reply \in {"allowed", "denied"} /\ Finish(q, req[q].reply)
      BY <1>10, <2>2 DEF Decide, Replied
    <3>2. PICK answer \in {"allowed", "denied"} : Finish(q, answer)
      BY <3>1
    <3> QED
      BY <1>6, <3>2 DEF Answers
  <2> QED
    BY <2>1, <2>2
<1>11. CASE Resume(q)
  BY <1>6, <1>11 DEF Resume, Answers
<1>12. CASE Fail(q)
  <2>1. Fatal(req[q])
    <3>1. OnRedis(q) /\ req[q].reply \in {"error", "NOSCRIPT"} /\ ~Reloads(q)
      BY <1>12 DEF Fail
    <3>2. req[q].pc = "load" => req[q].reply # "NOSCRIPT"
      BY <1>3, <3>1 DEF Command, Replies, NoReply
    <3> QED
      BY <3>1, <3>2 DEF OnRedis, Reloads, Fatal
  <2>2. (q \in disturbed' \/ Failed(q)) /\ Finish(q, "error")
    BY <1>12, <2>1 DEF Fail, FaultOK, causes
  <2> QED
    BY <1>6, <2>2 DEF Answers
<1>13. CASE TimeOut(q)
  <2>1. OnRedis(q) /\ req[q].left = 0 /\ Finish(q, "error") /\ disturbed' = disturbed
    BY <1>13 DEF TimeOut, causes
  <2>2. q \in disturbed \/ blocked[q] >= Timeout
    BY <2>1, TimesAssumption DEF FaultOK
  <2> QED
    BY <1>6, <2>1, <2>2 DEF Answers
<1>14. CASE Insert(q)
  <2>1. req'[q].pc = "thread"
    BY <1>14 DEF Insert, TypeInv, ReqOK, Idle, Command, Ended, Done, Inserting
  <2>2. server # "up" => q \in disturbed'
    BY <1>14 DEF Insert, FaultOK, Waiting, causes
  <2> QED
    BY <1>4, <2>1, <2>2
<1> QED
  BY <1>7, <1>8, <1>9, <1>10, <1>11, <1>12, <1>13, <1>14 DEF Handle

\* Redis, once it is up, has the script that it loaded unless it is stopped.
LEMMA RedisFaults ==
  ASSUME TypeInv, NEW q \in Requests, FaultOK(q), Load(q) \/ EvalSha(q) \/ Refuse(q)
  PROVE  FaultOK(q)'
<1>1. UNCHANGED <<server, blocked, disturbed>> /\ (Failed(q)' <=> Failed(q))
  BY DEF Load, EvalSha, RunScript, Refuse, redis, clocks, causes, Failed
<1>2. PICK reply : /\ OnRedis(q) /\ reply \in Replies(req[q].pc)
                   /\ req' = [req EXCEPT ![q].reply = reply]
                   /\ \/ Load(q) /\ reply = "sha"
                      \/ EvalSha(q) /\ reply = Decision
                      \/ Refuse(q) /\ reply = "error"
  BY DEF Load, EvalSha, Refuse, Pending, OnRedis, Replies, Decision
<1>3. /\ req'[q].pc = req[q].pc /\ req'[q].retried = req[q].retried
      /\ req'[q].reply = reply /\ req'[q].left = req[q].left
  BY <1>2, ReplyMoves
<1>4. Loaded(req'[q]) => cached' \/ q \in disturbed
  <2>1. CASE Load(q)
    BY <2>1 DEF Load
  <2>2. CASE (EvalSha(q) /\ reply = Decision) \/ (Refuse(q) /\ reply = "error")
    <3>1. reply \notin {"sha", NoReply}
      BY <2>2 DEF Decision, NoReply
    <3> QED
      BY <1>3, <3>1 DEF Loaded
  <2> QED
    BY <1>2, <2>1, <2>2
<1>5. Fatal(req'[q]) => q \in disturbed
  <2>1. CASE Load(q) /\ reply = "sha"
    BY <1>3, <2>1 DEF Fatal
  <2>2. CASE EvalSha(q) /\ reply = Decision
    <3>1. reply # "error" /\ (reply = "NOSCRIPT" => ~cached)
      BY <2>2 DEF Decision
    <3>2. req[q].pc = "eval" /\ req[q].reply = NoReply
      BY <2>2 DEF EvalSha, Pending
    <3> QED
      BY <1>3, <3>1, <3>2 DEF Fatal, FaultOK, Loaded
  <2>3. CASE Refuse(q)
    <3>1. server # "up" /\ Waiting(q)
      BY <2>3 DEF Refuse, Pending, Waiting
    <3> QED
      BY <3>1 DEF FaultOK
  <2> QED
    BY <1>2, <2>1, <2>2, <2>3
<1>6. OnRedis(q)' /\ Waiting(q) /\ ~Answered(q, {"error"})'
  BY <1>2, <1>3 DEF OnRedis, Waiting, Answered
<1>7. (server # "up" => q \in disturbed) /\ (q \in disturbed \/ blocked[q] >= Timeout - req[q].left)
  BY <1>2, <1>6 DEF FaultOK
<1> QED
  BY <1>1, <1>3, <1>4, <1>5, <1>6, <1>7 DEF FaultOK

\* FaultInv holds in every behaviour.
LEMMA FaultInvariant == Spec => []FaultInv
<1>1. Init => FaultInv
  BY DEF Init, FaultInv, FaultOK, Loaded, Fatal, OnRedis, Waiting, Answered, Idle
<1>2. TypeInv /\ TypeInv' /\ FaultInv /\ [Next]_vars => FaultInv'
  <2> SUFFICES ASSUME TypeInv, TypeInv', FaultInv, [Next]_vars, NEW o \in Requests
               PROVE  FaultOK(o)'
    BY DEF FaultInv
  <2>o. FaultOK(o)
    BY DEF FaultInv
  <2>s. ASSUME req'[o] = req[o], blocked'[o] = blocked[o],
               server' \in {"up", server} \/ o \in disturbed' \/ ~Waiting(o),
               cached => cached' \/ o \in disturbed' \/ ~Waiting(o),
               disturbed \subseteq disturbed', failures \subseteq failures'
        PROVE  FaultOK(o)'
    <3>1. Failed(o) => Failed(o)'
      BY <2>s DEF Failed
    <3> QED
      BY <2>o, <2>s, <3>1 DEF FaultOK, Loaded, Fatal, OnRedis, Waiting, Answered
  <2>1. ASSUME NEW q \in Requests,
               Arrive(q) \/ Handle(q) \/ Insert(q) \/ Load(q) \/ EvalSha(q) \/ Refuse(q)
        PROVE  FaultOK(o)'
    <3>1. CASE o = q
      BY <2>o, <2>1, <3>1, HandlerFaults, RedisFaults
    <3>2. CASE o # q
      <4>1. req'[o] = req[o]
        BY <2>1, <3>2, HandlerMoves, RedisMoves DEF Moves
      <4>2. blocked' = blocked /\ server' = server /\ (cached => cached')
            /\ disturbed \subseteq disturbed' /\ failures' = failures
        <5>1. CASE Arrive(q)
          BY <5>1 DEF Arrive, redis, clocks
        <5>2. CASE Handle(q) \/ Insert(q)
          <6>1. UNCHANGED <<server, cached, blocked, disturbed, failures>>
            BY <5>2 DEF Handle, Insert, Registered, Reload, Decide, Resume, Fail, TimeOut,
                        redis, clocks, causes
          <6> QED
            BY <6>1
        <5>3. CASE Load(q) \/ EvalSha(q) \/ Refuse(q)
          BY <5>3 DEF Load, EvalSha, RunScript, Refuse, redis, clocks, causes
        <5> QED
          BY <2>1, <5>1, <5>2, <5>3
      <4> QED
        BY <2>s, <4>1, <4>2
    <3> QED
      BY <3>1, <3>2
  <2>2. ASSUME NEW q \in Requests, EvalStray(q)
        PROVE  FaultOK(o)'
    BY <2>s, <2>2 DEF EvalStray, RunScript, clocks, causes
  <2>3. CASE Pass \/ Start \/ UNCHANGED vars
    BY <2>s, <2>3 DEF Pass, Start, vars, redis, clocks, causes
  <2>4. CASE Stall
    BY <2>s, <2>4 DEF Stall, clocks, OnTheirWay
  <2>5. CASE Stop
    <3>f. failures' = failures /\ (Failed(o)' <=> Failed(o))
      BY <2>5 DEF Stop, Failed
    <3>1. PICK broken \in SUBSET {q \in Requests : OnRedis(q)} :
            req' = [q \in Requests |->
                      IF q \in broken THEN [req[q] EXCEPT !.reply = "error"] ELSE req[q]]
      BY <2>5 DEF Stop
    <3>2. blocked' = blocked /\ disturbed \subseteq disturbed'
          /\ (Waiting(o) => o \in disturbed')
      BY <2>5 DEF Stop, clocks, OnTheirWay
    <3>3. CASE o \in broken
      <4>1. req'[o] = [pc |-> req[o].pc, retried |-> req[o].retried, reply |-> "error",
                       left |-> req[o].left]
        BY <3>1, <3>3, CommandMoves
      <4>2. OnRedis(o) /\ Waiting(o)
        BY <3>1, <3>3 DEF Waiting
      <4> QED
        BY <3>f, <3>2, <4>1, <4>2 DEF FaultOK, Answered, OnRedis
    <3>4. CASE o \notin broken
      BY <2>s, <3>f, <3>1, <3>2, <3>4
    <3> QED
      BY <3>3, <3>4
  <2>6. CASE Restart
    <3>1. CASE Waiting(o)
      <4>1. req'[o].pc = "done" /\ req'[o].answer = "lost"
        BY <2>6, <3>1 DEF Restart, Done
      <4> QED
        BY <4>1 DEF FaultOK, Loaded, Fatal, OnRedis, Waiting, Answered
    <3>2. CASE ~Waiting(o)
      BY <2>s, <2>6, <3>2 DEF Restart, clocks, causes
    <3> QED
      BY <3>1, <3>2
  <2>7. CASE Tick
    <3>1. UNCHANGED <<server, cached, disturbed, failures>> /\ (Failed(o)' <=> Failed(o))
      BY <2>7 DEF Tick, redis, causes, Failed
    <3>2. CASE ~OnRedis(o)
      BY <2>s, <2>7, <3>1, <3>2 DEF Tick, TypeInv
    <3>3. CASE OnRedis(o)
      <4>1. Command(req[o]) /\ req[o].left \in 0 .. Timeout
        BY <3>3, CommandMoves DEF Command
      <4>2. req'[o] = [pc |-> req[o].pc, retried |-> req[o].retried,
                       reply |-> req[o].reply, left |-> CountDown(req[o].left)]
        BY <2>7, <3>3, CommandMoves DEF Tick
      <4>3. blocked[o] \in 0 .. MaxAge /\ blocked'[o] \in 0 .. MaxAge
        BY DEF TypeInv
      <4>4. o \in disturbed \/ blocked'[o] >= Timeout - CountDown(req[o].left)
        <5>1. CASE LoopFree
          <6>1. Pending(o) /\ server = "stalled"
            BY <2>7, <3>3, <5>1 DEF Tick, Settled, Due, Pending, TypeInv
          <6> QED
            BY <2>o, <6>1, <3>3 DEF FaultOK, Waiting
        <5>2. CASE ~LoopFree
          <6>1. blocked'[o] = CountUp(blocked[o])
            BY <2>7, <3>3, <5>2 DEF Tick
          <6>2. o \in disturbed \/ blocked[o] >= Timeout - req[o].left
            BY <2>o, <3>3 DEF FaultOK
          <6> QED
            BY <4>1, <4>3, <6>1, <6>2, MaxAgeLarge, TimesAssumption DEF CountUp, CountDown
        <5> QED
          BY <5>1, <5>2
      <4>5. Waiting(o)
        BY <3>3 DEF Waiting
      <4> QED
        BY <2>o, <3>1, <3>3, <4>2, <4>4, <4>5
           DEF FaultOK, Loaded, Fatal, OnRedis, Waiting, Answered
    <3> QED
      BY <3>2, <3>3
  <2>8. ASSUME NEW q \in Requests, LookupFails(q) \/ SourceFails(q)
        PROVE  FaultOK(o)'
    <3>1. CASE o = q
      <4>1. req'[o].pc = "done" /\ Failed(o)'
        BY <2>8, <3>1, RaiseMoves
      <4> QED
        BY <4>1 DEF FaultOK, Loaded, Fatal, OnRedis, Waiting, Answered
    <3>2. CASE o # q
      BY <2>s, <2>8, <3>2, RaiseMoves DEF Moves
    <3> QED
      BY <3>1, <3>2
  <2>9. ASSUME NEW q \in Requests, Reject(q)
        PROVE  FaultOK(o)'
    <3>1. CASE o = q /\ req'[q] # req[q]
      <4>1. /\ OnRedis(o) /\ req'[o].pc = req[o].pc /\ req'[o].reply = "error"
            /\ req'[o].left = req[o].left /\ Failed(o)'
            /\ UNCHANGED <<server, blocked, disturbed>>
        BY <2>9, <3>1, RejectMoves DEF Pending
      <4> QED
        BY <2>o, <4>1 DEF FaultOK, Loaded, NoReply, OnRedis, Waiting, Answered
    <3>2. CASE o # q \/ req'[q] = req[q]
      BY <2>s, <2>9, <3>2, RejectMoves DEF Moves
    <3> QED
      BY <3>1, <3>2
  <2> QED
    BY <2>1, <2>2, <2>3, <2>4, <2>5, <2>6, <2>7, <2>8, <2>9 DEF Next
<1> QED
  BY <1>1, <1>2, TypeInvariant, PTL DEF Spec

\* A check is answered with an error only if Redis stalled, stopped or was away while it was
\* on its way, if scheduler passes held the loop for the length of the timeout, or if its key
\* could not be looked up, the script's file not be read, or a command of its own was
\* answered with an error.  That Redis lost the script is none of these.
THEOREM ErrorsHaveCauses == Spec => []ErrorsAreExplained
<1>1. FaultInv => ErrorsAreExplained
  BY DEF FaultInv, FaultOK, ErrorsAreExplained
<1> QED
  BY <1>1, FaultInvariant, PTL
=============================================================================
