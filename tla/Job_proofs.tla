----------------------------- MODULE Job_proofs -----------------------------
(***************************************************************************)
(* CJobBase: a job is executed at most once, whatever threads call Execute *)
(* and whatever else happens to the job in between, and once it is done    *)
(* its result is final and those who wait for it get it.  It is scheduled  *)
(* and taken out of the queue in turns, and not destroyed in between.      *)
(***************************************************************************)
EXTENDS Job, TLAPS

\* The thread that has won the exchange in Execute, up to its Set.
Executing(t) ==
  \/ pc[t] \in {"x.run", "x.finish"}
  \/ pc[t] = "s.exchange" /\ ev[t] = "executionDone"

\* The result is final.
Settled == result # "partial" /\ (result = "none" => terminated)

\* Winning the exchange is a token: as long as waiting is set nobody has it
\* and nothing has happened, and executionDone is only set by its owner.
TokenInv ==
  /\ waiting => /\ executions = 0 /\ result = "none"
                /\ ~state["executionDone"]
                /\ \A t \in Thread : ~Executing(t)
  /\ \A t, u \in Thread : Executing(t) /\ Executing(u) => t = u
  /\ \A t \in Thread :
       /\ Executing(t) => ~state["executionDone"]
       /\ pc[t] = "x.run" => executions = 0 /\ result = "none"
       /\ pc[t] = "s.exchange" /\ ev[t] = "executionDone" => Settled
  /\ executions <= 1
  /\ state["executionDone"] => Settled

Inv == JobTyped /\ TokenInv

UsesKnown == uses \in Scenarios

\* The inductive invariant is as strong as the properties.
LEMMA InvImplies == Inv => JobTyped /\ ExecutedOnce
BY DEF Inv, TokenInv, ExecutedOnce, Executing, Settled, At

\* A new job.
LEMMA InitInv == Init => Inv
<1> SUFFICES ASSUME Init PROVE Inv  OBVIOUS
<1>1. /\ waiting \in BOOLEAN /\ terminated \in BOOLEAN /\ scheduled \in BOOLEAN
      /\ owned \in BOOLEAN /\ inQueue \in BOOLEAN /\ alive \in BOOLEAN
  BY DEF Init
<1>2. /\ state \in [Event -> BOOLEAN]
      /\ handle \in [Event -> {"null", "reset", "signalled"}]
      /\ state["executionDone"] = FALSE
  BY DEF Init, NewEvents, Event
<1>3. /\ pc \in [Thread -> Label] /\ ret \in [Thread -> BackLabel]
      /\ ev \in [Thread -> Event]
  BY DEF Init, Thread, Event, Label, BackLabel
<1>4. executions = 0 /\ result = "none" /\ verdict = "none"
  BY DEF Init
<1>5. \A t \in Thread : pc[t] \in {"schedule", "idle"}
  BY DEF Init
<1>6. JobTyped
  BY <1>1, <1>2, <1>3, <1>4 DEF JobTyped
<1>7. TokenInv
  BY <1>2, <1>4, <1>5 DEF TokenInv, Executing
<1> QED  BY <1>6, <1>7 DEF Inv

-----------------------------------------------------------------------------
(* Most steps have nothing to do with the execution. *)

\* A step of t outside of Execute: t neither gets nor uses the token.
Aside(t) ==
  /\ \E l \in Label : pc' = [pc EXCEPT ![t] = l]
  /\ ~Executing(t) /\ ~Executing(t)'
  /\ \A u \in Thread \ {t} : ev'[u] = ev[u]
  /\ state'["executionDone"] = state["executionDone"]
  /\ terminated => terminated'
  /\ UNCHANGED <<waiting, executions, result>>

\* Such a step leaves the token where it is.
LEMMA AsideInv ==
  ASSUME Inv, NEW t \in Thread, Aside(t)
  PROVE  TokenInv'
<1>1. PICK l \in Label : pc' = [pc EXCEPT ![t] = l]
  BY DEF Aside
<1>2. \A u \in Thread \ {t} : pc'[u] = pc[u] /\ ev'[u] = ev[u]
  BY <1>1 DEF Aside, Inv, JobTyped
<1>3. \A u \in Thread : Executing(u)' => u # t /\ Executing(u)
  BY <1>2 DEF Aside, Executing
<1>4. ~Executing(t)'  BY DEF Aside
<1>5. \A u \in Thread : pc'[u] = "x.run" => pc[u] = "x.run"
  BY <1>2, <1>4 DEF Executing
<1>6. \A u \in Thread : pc'[u] = "s.exchange" /\ ev'[u] = "executionDone"
                          => pc[u] = "s.exchange" /\ ev[u] = "executionDone"
  BY <1>2, <1>4 DEF Executing
<1>7. Settled => Settled'
  BY DEF Aside, Settled
<1> QED
  BY <1>3, <1>5, <1>6, <1>7 DEF Inv, TokenInv, Aside

\* Labels a routine returns to are outside of Execute.
LEMMA BackLabels ==
  ASSUME JobTyped, NEW t \in Thread
  PROVE  ret[t] \in Label \ {"x.run", "x.finish", "s.exchange"}
BY DEF JobTyped, Label, BackLabel

\* A jump from and to labels outside of Execute, with nothing of what the
\* token protects touched.
LEMMA GoAside ==
  ASSUME Inv, NEW t \in Thread, NEW from, NEW to \in Label, Go(t, from, to),
         from \notin {"x.run", "x.finish", "s.exchange"},
         to \notin {"x.run", "x.finish"},
         to = "s.exchange" => ev'[t] = "deletable",
         \A u \in Thread \ {t} : ev'[u] = ev[u],
         state'["executionDone"] = state["executionDone"],
         terminated => terminated',
         UNCHANGED <<waiting, executions, result>>
  PROVE  TokenInv' /\ pc' \in [Thread -> Label]
<1>1. pc[t] = from /\ pc' = [pc EXCEPT ![t] = to] /\ pc' \in [Thread -> Label]
      /\ pc'[t] = to
  BY DEF Go, Inv, JobTyped
<1>2. ~Executing(t) /\ ~Executing(t)'
  BY <1>1 DEF Executing
<1>3. Aside(t)
  BY <1>1, <1>2 DEF Aside
<1> QED  BY <1>1, <1>3, AsideInv

-----------------------------------------------------------------------------
(* COneShotEvent *)

\* Set: the thread that has executed the job gives the token up by setting
\* executionDone; setting deletable is a step aside.
LEMMA SetExchangeInv ==
  ASSUME Inv, NEW t \in Thread, SetExchange(t)
  PROVE  Inv'
<1>1. JobTyped /\ TokenInv  BY DEF Inv
<1>2. PICK l \in {AfterSet(t), "s.signal"} :
        pc[t] = "s.exchange" /\ pc' = [pc EXCEPT ![t] = l]
  BY DEF SetExchange, Go
<1>3. l \in Label \ {"x.run", "x.finish", "s.exchange"}
  BY <1>1, <1>2, BackLabels DEF AfterSet, Label
<1>4. ev[t] \in Event /\ state' = [state EXCEPT ![ev[t]] = TRUE] /\ ev' = ev
  BY <1>1 DEF SetExchange, JobTyped
<1>5. state' \in [Event -> BOOLEAN]
  BY <1>1, <1>4 DEF JobTyped
<1>6. pc' \in [Thread -> Label] /\ pc'[t] = l
  BY <1>1, <1>2, <1>3 DEF JobTyped
<1>7. JobTyped'
  BY <1>1, <1>5, <1>6
  DEF JobTyped, SetExchange, flags, effects
<1>8. CASE ev[t] = "executionDone"
  <2>1. Executing(t) /\ Settled /\ ~waiting
    BY <1>1, <1>2, <1>8 DEF Executing, TokenInv
  <2>2. \A u \in Thread : ~Executing(u)'
    <3>1. ~Executing(t)'  BY <1>3, <1>6 DEF Executing
    <3>2. ASSUME NEW u \in Thread \ {t} PROVE ~Executing(u)'
      <4>1. ~Executing(u)  BY <1>1, <2>1 DEF TokenInv
      <4>2. pc'[u] = pc[u] /\ ev'[u] = ev[u]  BY <1>1, <1>2, <1>4 DEF JobTyped
      <4> QED  BY <4>1, <4>2 DEF Executing
    <3> QED  BY <3>1, <3>2
  <2>3. UNCHANGED <<waiting, terminated, executions, result>>
    BY DEF SetExchange, flags, effects
  <2>4. Settled'  BY <2>1, <2>3 DEF Settled
  <2>5. \A u \in Thread : pc'[u] # "x.run"
    BY <2>2 DEF Executing
  <2>6. TokenInv'
    BY <1>1, <2>1, <2>2, <2>3, <2>4, <2>5 DEF TokenInv
  <2> QED  BY <1>7, <2>6 DEF Inv
<1>9. CASE ev[t] = "deletable"
  <2>1. state'["executionDone"] = state["executionDone"]
    BY <1>1, <1>4, <1>9 DEF JobTyped
  <2>2. ~Executing(t) /\ ~Executing(t)'
    BY <1>2, <1>3, <1>4, <1>6, <1>9 DEF Executing
  <2>3. Aside(t)
    BY <1>2, <1>3, <1>4, <2>1, <2>2 DEF Aside, SetExchange, flags, effects
  <2> QED  BY <1>7, <2>3, AsideInv DEF Inv
<1> QED  BY <1>4, <1>8, <1>9 DEF Event

\* The rest of COneShotEvent does not touch the state.
LEMMA EventInv ==
  ASSUME Inv, NEW t \in Thread,
         SetSignal(t) \/ WaitFor(t) \/ WaitForEndOrTimeout(t)
  PROVE  Inv'
<1>1. JobTyped  BY DEF Inv
<1>2. /\ AfterSet(t) \in Label \ {"x.run", "x.finish", "s.exchange"}
      /\ ret[t] \in Label \ {"x.run", "x.finish", "s.exchange"}
  BY <1>1, BackLabels DEF AfterSet, Label
<1>3. /\ UNCHANGED <<flags, state, owned, inQueue, alive, executions, result,
                     ret, ev>>
      /\ \E from, to \in Label :
           /\ Go(t, from, to)
           /\ from \notin {"x.run", "x.finish", "s.exchange"}
           /\ to \notin {"x.run", "x.finish", "s.exchange"}
  BY <1>2 DEF SetSignal, WaitFor, WaitForEndOrTimeout, Test, Alloc, WaitBlock,
              events, effects, Label
<1>4. /\ handle' \in [Event -> {"null", "reset", "signalled"}]
      /\ verdict' \in {"none", "true", "false"}
  BY <1>1 DEF SetSignal, WaitFor, WaitForEndOrTimeout, Test, Alloc, WaitBlock,
              events, effects, JobTyped
<1>5. TokenInv' /\ pc' \in [Thread -> Label]
  BY <1>3, GoAside DEF flags
<1>6. JobTyped'
  BY <1>1, <1>3, <1>4, <1>5 DEF JobTyped, flags
<1> QED  BY <1>5, <1>6 DEF Inv

-----------------------------------------------------------------------------
(* CJobBase *)

\* Only the first caller gets the token.
LEMMA ExecuteExchangeInv ==
  ASSUME Inv, NEW t \in Thread, ExecuteExchange(t)
  PROVE  Inv'
<1>1. JobTyped /\ TokenInv  BY DEF Inv
<1>2. /\ pc[t] = "x.exchange"
      /\ pc' = [pc EXCEPT ![t] = IF waiting THEN "x.run" ELSE ret[t]]
      /\ waiting' = FALSE
      /\ UNCHANGED <<terminated, state, executions, result, ev>>
  BY DEF ExecuteExchange, Go, events, effects
<1>3. JobTyped'
  <2>1. pc' \in [Thread -> Label]
    BY <1>1, <1>2, BackLabels DEF JobTyped, Label
  <2> QED  BY <1>1, <1>2, <2>1 DEF JobTyped, ExecuteExchange, events, effects
<1>4. CASE waiting
  <2>1. \A u \in Thread : Executing(u)' => u = t
    <3>1. ASSUME NEW u \in Thread \ {t} PROVE ~Executing(u)'
      <4>1. ~Executing(u)  BY <1>1, <1>4 DEF TokenInv
      <4>2. pc'[u] = pc[u] /\ ev'[u] = ev[u]  BY <1>1, <1>2 DEF JobTyped
      <4> QED  BY <4>1, <4>2 DEF Executing
    <3> QED  BY <3>1
  <2>2. executions' = 0 /\ result' = "none" /\ ~state'["executionDone"]
    BY <1>1, <1>2, <1>4 DEF TokenInv
  <2>3. pc'[t] = "x.run"
    BY <1>1, <1>2, <1>4 DEF JobTyped
  <2>4. \A u \in Thread : ~(pc'[u] = "s.exchange" /\ ev'[u] = "executionDone")
    BY <2>1, <2>3 DEF Executing
  <2>5. TokenInv'
    BY <1>2, <2>1, <2>2, <2>4 DEF TokenInv
  <2> QED  BY <1>3, <2>5 DEF Inv
<1>5. CASE ~waiting
  <2>1. pc'[t] = ret[t] /\ pc' = [pc EXCEPT ![t] = ret[t]]
    BY <1>1, <1>2, <1>5 DEF JobTyped
  <2>2. ~Executing(t) /\ ~Executing(t)'
    BY <1>1, <1>2, <2>1, BackLabels DEF Executing
  <2>3. waiting' = waiting
    BY <1>1, <1>2, <1>5 DEF JobTyped
  <2>4. Aside(t)
    BY <1>1, <1>2, <2>1, <2>2, <2>3, BackLabels DEF Aside
  <2> QED  BY <1>3, <2>4, AsideInv DEF Inv
<1> QED  BY <1>4, <1>5

\* While t executes the job and keeps the token, only the result and the
\* number of executions change.
LEMMA TokenKept ==
  ASSUME Inv, NEW t \in Thread, Executing(t),
         NEW l \in {"x.finish", "s.exchange"}, pc' = [pc EXCEPT ![t] = l],
         \A u \in Thread \ {t} : ev'[u] = ev[u],
         UNCHANGED <<waiting, state>>,
         executions' <= 1,
         l = "s.exchange" => Settled'
  PROVE  TokenInv'
<1>1. TokenInv /\ pc \in [Thread -> Label]  BY DEF Inv, JobTyped
<1>2. ~waiting /\ ~state["executionDone"]  BY <1>1 DEF TokenInv
<1>3. ASSUME NEW u \in Thread \ {t}
      PROVE  ~Executing(u)'
  <2>1. ~Executing(u)  BY <1>1 DEF TokenInv
  <2>2. pc'[u] = pc[u] /\ ev'[u] = ev[u]  BY <1>1
  <2> QED  BY <2>1, <2>2 DEF Executing
<1>4. pc'[t] = l  BY <1>1
<1>5. \A u \in Thread : pc'[u] # "x.run"
  BY <1>3, <1>4 DEF Executing
<1>6. \A u \in Thread : pc'[u] = "s.exchange" /\ ev'[u] = "executionDone" => Settled'
  BY <1>3, <1>4 DEF Executing
<1> QED  BY <1>2, <1>3, <1>5, <1>6 DEF TokenInv

\* InternalExecute starts: it has not been called before.
LEMMA ExecuteRunInv ==
  ASSUME Inv, NEW t \in Thread, ExecuteRun(t)
  PROVE  Inv'
<1>1. JobTyped /\ TokenInv  BY DEF Inv
<1>2. /\ pc[t] = "x.run"
      /\ pc' = [pc EXCEPT ![t] = IF terminated THEN "s.exchange" ELSE "x.finish"]
      /\ ev' = [ev EXCEPT ![t] = "executionDone"]
      /\ UNCHANGED <<waiting, terminated, scheduled, state, handle, owned,
                     inQueue, alive, verdict, ret>>
  BY DEF ExecuteRun, Go, flags, events
<1>3. Executing(t) /\ executions = 0 /\ result = "none"
  BY <1>1, <1>2 DEF Executing, TokenInv
<1>4. \A u \in Thread \ {t} : ev'[u] = ev[u]
  BY <1>1, <1>2 DEF JobTyped
<1>5. CASE terminated
  <2>1. executions' = 0 /\ executions' <= 1 /\ result' = "none" /\ Settled'
    BY <1>2, <1>3, <1>5 DEF ExecuteRun, Settled
  <2>2. pc' = [pc EXCEPT ![t] = "s.exchange"]
    BY <1>2, <1>5
  <2>3. TokenInv'
    BY <1>2, <1>3, <1>4, <2>1, <2>2, TokenKept
  <2>4. JobTyped'
    BY <1>1, <1>2, <2>1, <2>2 DEF JobTyped, Label, Event
  <2> QED  BY <2>3, <2>4 DEF Inv
<1>6. CASE ~terminated
  <2>1. executions' = 1 /\ executions' <= 1 /\ result' = "partial"
    BY <1>3, <1>6 DEF ExecuteRun
  <2>2. pc' = [pc EXCEPT ![t] = "x.finish"]
    BY <1>2, <1>6
  <2>3. TokenInv'
    BY <1>2, <1>3, <1>4, <2>1, <2>2, TokenKept
  <2>4. JobTyped'
    BY <1>1, <1>2, <2>1, <2>2 DEF JobTyped, Label, Event
  <2> QED  BY <2>3, <2>4 DEF Inv
<1> QED  BY <1>5, <1>6

\* InternalExecute ends and leaves its result.
LEMMA ExecuteFinishInv ==
  ASSUME Inv, NEW t \in Thread, ExecuteFinish(t)
  PROVE  Inv'
<1>1. JobTyped /\ TokenInv  BY DEF Inv
<1>2. /\ pc[t] = "x.finish" /\ pc' = [pc EXCEPT ![t] = "s.exchange"]
      /\ result' \in {"complete", "cancelled"}
      /\ UNCHANGED <<waiting, terminated, scheduled, state, handle, owned,
                     inQueue, alive, executions, verdict, ret, ev>>
  BY DEF ExecuteFinish, Go, flags, events
<1>3. Executing(t)  BY <1>2 DEF Executing
<1>4. executions' <= 1 /\ Settled'
  BY <1>1, <1>2 DEF TokenInv, Settled
<1>5. TokenInv'
  BY <1>2, <1>3, <1>4, TokenKept
<1>6. JobTyped'
  BY <1>1, <1>2 DEF JobTyped, Label
<1> QED  BY <1>5, <1>6 DEF Inv

-----------------------------------------------------------------------------
(* Everything else is a step aside. *)

\* What the other steps have in common.
Other(t) ==
  /\ \E from, to \in Label :
       /\ Go(t, from, to)
       /\ from \notin {"x.run", "x.finish", "s.exchange"}
       /\ to \notin {"x.run", "x.finish"}
       /\ to = "s.exchange" => ev' = [ev EXCEPT ![t] = "deletable"]
  /\ \/ UNCHANGED ev
     \/ \E e \in Event : ev' = [ev EXCEPT ![t] = e]
  /\ \/ UNCHANGED ret
     \/ \E b \in BackLabel : ret' = [ret EXCEPT ![t] = b]
  /\ terminated' \in BOOLEAN /\ (terminated => terminated')
  /\ scheduled' \in BOOLEAN /\ inQueue' \in BOOLEAN /\ alive' \in BOOLEAN
  /\ UNCHANGED <<waiting, state, handle, owned, executions, result, verdict>>

\* They keep the invariant.
LEMMA OtherInv ==
  ASSUME Inv, NEW t \in Thread, Other(t)
  PROVE  Inv'
<1>1. JobTyped  BY DEF Inv
<1>2. PICK from, to \in Label :
        /\ Go(t, from, to)
        /\ from \notin {"x.run", "x.finish", "s.exchange"}
        /\ to \notin {"x.run", "x.finish"}
        /\ to = "s.exchange" => ev' = [ev EXCEPT ![t] = "deletable"]
  BY DEF Other
<1>3. /\ ev' \in [Thread -> Event]
      /\ \A u \in Thread \ {t} : ev'[u] = ev[u]
      /\ to = "s.exchange" => ev'[t] = "deletable"
  BY <1>1, <1>2 DEF Other, JobTyped
<1>4. ret' \in [Thread -> BackLabel]
  BY <1>1 DEF Other, JobTyped
<1>5. TokenInv' /\ pc' \in [Thread -> Label]
  BY <1>2, <1>3, GoAside DEF Other
<1>6. JobTyped'
  BY <1>1, <1>3, <1>4, <1>5 DEF JobTyped, Other
<1> QED  BY <1>5, <1>6 DEF Inv

\* OnUnSchedule, the test of scheduled in Execute, and the destructor.
LEMMA ObjectOther ==
  ASSUME Inv, NEW t \in Thread,
         ExecuteTest(t) \/ OnUnSchedule(t) \/ Destroy(t)
  PROVE  Other(t)
<1>1. JobTyped  BY DEF Inv
<1>2. ret[t] \in Label \ {"x.run", "x.finish", "s.exchange"}
  BY <1>1, BackLabels
<1>3. CASE ExecuteTest(t)
  <2>1. /\ Go(t, "x.scheduled", ret[t]) \/ Go(t, "x.scheduled", "s.exchange")
        /\ ev' = [ev EXCEPT ![t] = "deletable"]
    BY <1>3 DEF ExecuteTest
  <2>2. UNCHANGED <<flags, events, owned, inQueue, alive, effects, ret>>
    BY <1>3 DEF ExecuteTest
  <2> QED
    BY <1>1, <1>2, <2>1, <2>2
    DEF Other, flags, events, effects, JobTyped, Label, Event
<1>4. CASE UnScheduleExchange(t)
  <2>1. Go(t, "u.exchange", "u.test") \/ Go(t, "u.exchange", ret[t])
    BY <1>4 DEF UnScheduleExchange
  <2>2. PICK to \in Label \ {"x.run", "x.finish", "s.exchange"} :
          Go(t, "u.exchange", to)
    BY <1>2, <2>1 DEF Label
  <2>3. /\ scheduled' = FALSE
        /\ UNCHANGED <<waiting, terminated, state, handle, owned, inQueue, alive,
                       executions, result, verdict, ret, ev>>
    BY <1>4 DEF UnScheduleExchange, events, effects
  <2>4. "u.exchange" \in Label \ {"x.run", "x.finish", "s.exchange"}
    BY DEF Label
  <2> QED
    BY <1>1, <2>2, <2>3, <2>4, Zenon DEF Other, JobTyped
<1>5. CASE UnScheduleTest(t)
  <2>1. /\ Go(t, "u.test", ret[t]) \/ Go(t, "u.test", "s.exchange")
        /\ ev' = [ev EXCEPT ![t] = "deletable"]
    BY <1>5 DEF UnScheduleTest
  <2>2. UNCHANGED <<flags, events, owned, inQueue, alive, effects, ret>>
    BY <1>5 DEF UnScheduleTest
  <2> QED
    BY <1>1, <1>2, <2>1, <2>2
    DEF Other, flags, events, effects, JobTyped, Label, Event
<1>6. CASE Destroy(t)
  BY <1>1, <1>6
  DEF Other, Destroy, Go, flags, events, effects, JobTyped, Label
<1> QED  BY <1>3, <1>4, <1>5, <1>6 DEF OnUnSchedule

\* The scheduler's Schedule.
LEMMA ScheduleOther ==
  ASSUME Inv, NEW t \in Thread, NEW from \in {"schedule", "reschedule"},
         NEW back \in BackLabel, Schedule(t, from, back)
  PROVE  Other(t)
<1>1. JobTyped  BY DEF Inv
<1>2. ret[t] \in Label \ {"x.run", "x.finish", "s.exchange"}
  BY <1>1, BackLabels
<1> QED
  BY <1>1, <1>2
  DEF Other, Schedule, Call, flags, events, effects, JobTyped, Label

\* CJobBase::Delete up to the wait.
LEMMA DeleteOther ==
  ASSUME Inv, NEW t \in Thread, Delete(t, "client")
  PROVE  Other(t)
<1>1. JobTyped  BY DEF Inv
<1>2. CASE DeleteStart(t, "client")
  <2>1. /\ Go(t, "client", "d.waiting")
        /\ \E b \in BOOLEAN : terminated' = (terminated \/ b)
        /\ UNCHANGED <<waiting, scheduled, events, owned, inQueue, alive,
                       effects, ret, ev>>
    BY <1>2 DEF DeleteStart
  <2>2. terminated' \in BOOLEAN /\ (terminated => terminated')
    BY <2>1
  <2> QED
    BY <1>1, <2>1, <2>2 DEF Other, events, effects, JobTyped, Label
<1>3. CASE DeleteExecute(t)
  <2>1. /\ Go(t, "d.waiting", "x.exchange") \/ Go(t, "d.waiting", "d.wait")
        /\ ret' = [ret EXCEPT ![t] = "d.wait"]
        /\ UNCHANGED <<flags, events, owned, inQueue, alive, effects, ev>>
    BY <1>3 DEF DeleteExecute, Call
  <2> QED
    BY <1>1, <2>1 DEF Other, flags, events, effects, JobTyped, Label, BackLabel
<1>4. CASE DeleteWait(t)
  BY <1>1, <1>4
  DEF Other, DeleteWait, Call, flags, events, effects, JobTyped, Label,
      BackLabel, Event
<1> QED  BY <1>2, <1>3, <1>4 DEF Delete

\* Terminate and the calls that wait for the job.
LEMMA ObserveOther ==
  ASSUME Inv, NEW t \in Thread, Observe(t, "client")
  PROVE  Other(t)
<1>1. JobTyped  BY DEF Inv
<1>2. CASE /\ Go(t, "client", "client")
           /\ terminated' = TRUE
           /\ UNCHANGED <<waiting, scheduled, events, owned, inQueue, alive,
                          effects, ret, ev>>
  BY <1>1, <1>2 DEF Other, events, effects, JobTyped, Label
<1>3. CASE /\ \/ Call(t, "client", "o.wait", "client")
              \/ Call(t, "client", "x.exchange", "o.wait")
           /\ UNCHANGED <<flags, events, owned, inQueue, alive, effects, ev>>
  BY <1>1, <1>3
  DEF Other, Call, flags, events, effects, JobTyped, Label, BackLabel
<1>4. CASE /\ \/ Call(t, "o.wait", "w.test", "client")
              \/ Call(t, "client", "t.test", "client")
           /\ ev' = [ev EXCEPT ![t] = "executionDone"]
           /\ UNCHANGED <<flags, events, owned, inQueue, alive, effects>>
  BY <1>1, <1>4
  DEF Other, Call, flags, events, effects, JobTyped, Label, BackLabel, Event
<1> QED  BY <1>2, <1>3, <1>4 DEF Observe

\* What the worker and the remover do besides calling the job.
LEMMA QueueOther ==
  ASSUME Inv, NEW t \in Thread,
         \/ Take(t, "x.exchange", "unschedule")
         \/ Take(t, "u.exchange", "removed") \/ Take(t, "u.exchange", "cleanup")
         \/ /\ Call(t, "unschedule", "u.exchange", "cleanup")
            /\ UNCHANGED <<flags, events, owned, inQueue, alive, effects, ev>>
         \/ /\ Go(t, "removed", "reschedule") \/ Go(t, "removed", "idle")
            /\ UNCHANGED <<flags, events, owned, inQueue, alive, effects, ret, ev>>
         \/ Cleanup(t)
  PROVE  Other(t)
<1>1. JobTyped  BY DEF Inv
<1>2. CASE \/ Take(t, "x.exchange", "unschedule")
           \/ Take(t, "u.exchange", "removed")
           \/ Take(t, "u.exchange", "cleanup")
  BY <1>1, <1>2
  DEF Other, Take, Call, flags, events, effects, JobTyped, Label, BackLabel
<1>3. CASE /\ Call(t, "unschedule", "u.exchange", "cleanup")
           /\ UNCHANGED <<flags, events, owned, inQueue, alive, effects, ev>>
  BY <1>1, <1>3
  DEF Other, Call, flags, events, effects, JobTyped, Label, BackLabel
<1>4. CASE /\ Go(t, "removed", "reschedule") \/ Go(t, "removed", "idle")
           /\ UNCHANGED <<flags, events, owned, inQueue, alive, effects, ret, ev>>
  BY <1>1, <1>4 DEF Other, flags, events, effects, JobTyped, Label
<1>5. CASE Cleanup(t)
  <2>1. /\ Go(t, "cleanup", "delete") \/ Go(t, "cleanup", "idle")
        /\ UNCHANGED <<flags, events, owned, inQueue, alive, effects, ret, ev>>
    BY <1>5 DEF Cleanup
  <2> QED  BY <1>1, <2>1 DEF Other, flags, events, effects, JobTyped, Label
<1> QED  BY <1>2, <1>3, <1>4, <1>5

\* Every step of every thread.
LEMMA NextInv ==
  ASSUME Inv, [Next]_vars
  PROVE  Inv'
<1>1. \A t \in Thread : Execute(t) => Inv'
  BY ExecuteExchangeInv, ExecuteRunInv, ExecuteFinishInv, ObjectOther, OtherInv
  DEF Execute
<1>2. {"owner", "worker", "remover"} \subseteq Thread
      /\ {"idle", "gone", "client"} \subseteq BackLabel
  BY DEF Thread, BackLabel
<1>3. CASE OwnerStep
  <2>1. Schedule("owner", "schedule", IF owned THEN "gone" ELSE "client") => Inv'
    BY <1>2, ScheduleOther, OtherInv
  <2> QED
    BY <1>1, <1>2, <1>3, <2>1, ObserveOther, DeleteOther, ObjectOther, OtherInv,
       SetExchangeInv, EventInv
    DEF OwnerStep
<1>4. CASE WorkerStep
  BY <1>1, <1>2, <1>4, QueueOther, ObjectOther, OtherInv, SetExchangeInv, EventInv
  DEF WorkerStep
<1>5. CASE RemoverStep
  <2>1. Schedule("remover", "reschedule", "idle") => Inv'
    BY <1>2, ScheduleOther, OtherInv
  <2> QED
    BY <1>2, <1>5, <2>1, QueueOther, ObjectOther, OtherInv, SetExchangeInv, EventInv
    DEF RemoverStep
<1>6. CASE UNCHANGED vars
  <2>1. UNCHANGED <<waiting, terminated, scheduled, state, handle, owned, inQueue,
                    alive, executions, result, verdict, pc, ret, ev>>
    BY <1>6 DEF vars, flags, events, effects
  <2>2. JobTyped'  BY <2>1 DEF Inv, JobTyped
  <2>3. TokenInv'  BY <2>1 DEF Inv, TokenInv, Executing, Settled
  <2> QED  BY <2>2, <2>3 DEF Inv
<1> QED  BY <1>3, <1>4, <1>5, <1>6 DEF Next

\* IJob.h: "Jobs will be executed only once making the done state the final
\* state of the internal state machine", whatever the clients do with the job.
THEOREM JobExecutedOnce == Spec => [](TypeOK /\ ExecutedOnce)
<1>1. Inv /\ [Next]_vars => Inv'
  BY NextInv
<1>2. Init => Inv /\ UsesKnown
  BY InitInv DEF Init, UsesKnown
<1>3. UsesKnown /\ [Next]_vars => UsesKnown'
  BY DEF Next, OwnerStep, WorkerStep, RemoverStep, vars, UsesKnown
<1>4. Inv /\ UsesKnown => TypeOK /\ ExecutedOnce
  BY InvImplies DEF TypeOK, UsesKnown
<1> QED  BY <1>1, <1>2, <1>3, <1>4, PTL DEF Spec

-----------------------------------------------------------------------------
(* The life of the object.  Being scheduled is a reference to the job that *)
(* is handed on: from the client that schedules it to the queue, from      *)
(* there to the thread that takes it out, which gives it up in OnUnSchedule *)
(* or hands it to the client that schedules the job again.                 *)

Setting == {"s.exchange", "s.signal"}
Waiting == {"w.test", "w.alloc", "w.retest", "w.block"}
InExecute == {"x.exchange", "x.run", "x.finish", "x.scheduled"} \cup Setting

\* t refers to the job on behalf of the scheduler.
Refers(t) ==
  \/ pc[t] \in {"push", "unschedule", "u.exchange"}
  \/ pc[t] \in InExecute /\ ret[t] = "unschedule"

\* t has a job that is not scheduled, and may schedule it.
Offers(t) ==
  \/ pc[t] \in {"schedule", "removed", "reschedule"}
  \/ pc[t] \in {"u.test"} \cup Setting /\ ret[t] = "removed"

Holds(t) == Refers(t) \/ Offers(t)

\* There is one reference, and scheduled says whether the scheduler has it.
RefInv ==
  /\ scheduled <=> inQueue \/ \E t \in Thread : Refers(t)
  /\ inQueue => \A t \in Thread : ~Holds(t)
  /\ \A t, u \in Thread : Holds(t) /\ Holds(u) => t = u

\* Where the threads may be, l with l's return label b and event e.
OwnerAt(l, b, e) ==
  \/ l \in {"schedule", "client", "gone", "o.wait"}
  \/ l \in {"d.waiting", "d.wait", "delete"} /\ "delete" \in uses
  \/ l = "push" /\ b = IF owned THEN "gone" ELSE "client"
  \/ /\ l \in InExecute /\ (l = "x.finish" => e = "executionDone")
     /\ b = "o.wait" \/ (b = "d.wait" /\ "delete" \in uses)
  \/ l \in Waiting /\ b = "client" /\ e = "executionDone"
  \/ l \in Waiting /\ b = "delete" /\ e = "deletable" /\ "delete" \in uses
  \/ l \in {"t.test", "t.alloc", "t.block"} /\ b = "client"

WorkerAt(l, b, e) ==
  \/ l \in {"idle", "unschedule", "cleanup", "gone"}
  \/ l = "delete" /\ owned
  \/ /\ l \in InExecute /\ (l = "x.finish" => e = "executionDone")
     /\ b = "unschedule"
  \/ l \in {"u.exchange", "u.test"} /\ b = "cleanup"
  \/ l \in Setting /\ b = "cleanup" /\ e = "deletable"

RemoverAt(l, b, e) ==
  \/ l \in {"idle", "cleanup", "gone"}
  \/ l = "delete" /\ owned
  \/ l = "removed" /\ ~owned
  \/ l = "reschedule" /\ ~owned /\ "reschedule" \in uses
  \/ l = "push" /\ b = "idle" /\ ~owned /\ "reschedule" \in uses
  \/ /\ l \in {"u.exchange", "u.test"} \/ (l \in Setting /\ e = "deletable")
     /\ b = "cleanup" \/ (b = "removed" /\ ~owned)

ShapeInv ==
  /\ OwnerAt(pc["owner"], ret["owner"], ev["owner"])
  /\ WorkerAt(pc["worker"], ret["worker"], ev["worker"])
  /\ RemoverAt(pc["remover"], ret["remover"], ev["remover"])
  /\ owned => pc["owner"] \in {"schedule", "push", "gone"}

\* An OS event is signalled only after the state has been set.
SignalInv ==
  /\ \A t \in Thread : pc[t] = "s.signal" => state[ev[t]]
  /\ \A e \in Event : handle[e] = "signalled" => state[e]
  /\ pc["owner"] = "delete" => state["deletable"]

\* The job has been scheduled, and is not any more.
Spent == ~scheduled /\ pc["owner"] # "schedule"

\* t has given the reference up and makes the job deletable or destroys it.
Ending(t) ==
  \/ pc[t] \in {"u.test", "cleanup", "delete"}
  \/ pc[t] \in Setting /\ ev[t] = "deletable"

Final == owned \/ "reschedule" \notin uses

EndInv ==
  /\ Final /\ state["deletable"] => Spent
  /\ Final => \A t \in Thread : Ending(t) => Spent
  /\ ~({"reschedule", "delete"} \subseteq uses) /\ ~alive
       => Final /\ Spent /\ pc["owner"] = "gone"

LifeInv == RefInv /\ ShapeInv /\ SignalInv /\ EndInv

\* A new job is referred to by nobody but the client that schedules it.
LEMMA InitLife == Init => LifeInv
<1> SUFFICES ASSUME Init PROVE LifeInv  OBVIOUS
<1>1. /\ pc["owner"] = "schedule" /\ pc["worker"] = "idle" /\ pc["remover"] = "idle"
      /\ ~scheduled /\ ~inQueue /\ alive
      /\ \A e \in Event : ~state[e] /\ handle[e] = "null"
  BY DEF Init, NewEvents, Thread
<1>2. RefInv
  BY <1>1 DEF RefInv, Holds, Refers, Offers, InExecute, Setting, Thread
<1>3. ShapeInv
  BY <1>1 DEF ShapeInv, OwnerAt, WorkerAt, RemoverAt
<1>4. SignalInv
  BY <1>1 DEF SignalInv, Thread
<1>5. EndInv
  BY <1>1 DEF EndInv, Ending, Setting, Thread, Event
<1> QED  BY <1>2, <1>3, <1>4, <1>5 DEF LifeInv

-----------------------------------------------------------------------------
(* A step of t takes t from its label to l; the labels of the others stay. *)

Moves(t, l) ==
  /\ pc' = [pc EXCEPT ![t] = l]
  /\ \A u \in Thread \ {t} : ret'[u] = ret[u] /\ ev'[u] = ev[u]
  /\ UNCHANGED <<uses, owned>>

\* The reference does not change hands in a step that leaves the queue and the
\* flag alone and t as it is: holding the reference or not.
LEMMA QuietRef ==
  ASSUME JobTyped, RefInv, NEW t \in Thread, NEW l, Moves(t, l),
         Refers(t)' <=> Refers(t), Offers(t)' => Holds(t),
         UNCHANGED <<scheduled, inQueue>>
  PROVE  RefInv'
<1>1. \A u \in Thread \ {t} : pc'[u] = pc[u] /\ ret'[u] = ret[u]
  BY DEF Moves, JobTyped
<1>2. \A u \in Thread \ {t} : (Refers(u)' <=> Refers(u)) /\ (Offers(u)' <=> Offers(u))
  BY <1>1 DEF Refers, Offers
<1>3. \A u \in Thread : (Refers(u)' <=> Refers(u)) /\ (Holds(u)' => Holds(u))
  BY <1>2 DEF Holds
<1> QED  BY <1>3 DEF RefInv

\* Only a thread that has given the reference up, or found it given up, makes
\* the job deletable; then the job stays as it is, until it is destroyed.
LEMMA QuietEnd ==
  ASSUME JobTyped, EndInv, NEW t \in Thread, NEW l, Moves(t, l),
         l # "schedule", pc["owner"] = "gone" => t # "owner",
         Ending(t)' \/ state'["deletable"]
           => Ending(t) \/ state["deletable"] \/ (Final => Spent),
         scheduled' => scheduled, UNCHANGED alive
  PROVE  EndInv'
<1>1. \A u \in Thread \ {t} : pc'[u] = pc[u] /\ ret'[u] = ret[u] /\ ev'[u] = ev[u]
  BY DEF Moves, JobTyped
<1>2. \A u \in Thread \ {t} : Ending(u)' <=> Ending(u)
  BY <1>1 DEF Ending
<1>3. Final' <=> Final
  BY DEF Final, Moves
<1>4. pc'[t] = l /\ "owner" \in Thread
  BY DEF Moves, JobTyped, Thread
<1>5. Spent => Spent'
  BY <1>1, <1>4 DEF Spent
<1>6. pc["owner"] = "gone" => pc'["owner"] = "gone"
  BY <1>1, <1>4
<1>7. Final' /\ state'["deletable"] => Spent'
  BY <1>3, <1>5 DEF EndInv
<1>8. Final' => \A u \in Thread : Ending(u)' => Spent'
  BY <1>2, <1>3, <1>5 DEF EndInv
<1>9. ~({"reschedule", "delete"} \subseteq uses') /\ ~alive'
        => Final' /\ Spent' /\ pc'["owner"] = "gone"
  BY <1>3, <1>5, <1>6 DEF EndInv, Moves
<1> QED  BY <1>7, <1>8, <1>9 DEF EndInv

\* A thread may be where it was or where its step has taken it.
LEMMA ShapeStep ==
  ASSUME JobTyped, ShapeInv, NEW t \in Thread, NEW l, Moves(t, l),
         t = "owner" => /\ OwnerAt(l, ret'[t], ev'[t])
                        /\ owned => l \in {"schedule", "push", "gone"},
         t = "worker" => WorkerAt(l, ret'[t], ev'[t]),
         t = "remover" => RemoverAt(l, ret'[t], ev'[t])
  PROVE  ShapeInv'
<1>1. \A u \in Thread \ {t} : pc'[u] = pc[u] /\ ret'[u] = ret[u] /\ ev'[u] = ev[u]
  BY DEF Moves, JobTyped
<1>2. pc'[t] = l /\ uses' = uses /\ owned' = owned
  BY DEF Moves, JobTyped
<1>3. OwnerAt(pc["owner"], ret["owner"], ev["owner"])'
  BY <1>1, <1>2 DEF ShapeInv, OwnerAt, Thread
<1>4. WorkerAt(pc["worker"], ret["worker"], ev["worker"])'
  BY <1>1, <1>2 DEF ShapeInv, WorkerAt, Thread
<1>5. RemoverAt(pc["remover"], ret["remover"], ev["remover"])'
  BY <1>1, <1>2 DEF ShapeInv, RemoverAt, Thread
<1>6. owned' => pc'["owner"] \in {"schedule", "push", "gone"}
  BY <1>1, <1>2 DEF ShapeInv, Thread
<1> QED  BY <1>3, <1>4, <1>5, <1>6 DEF ShapeInv

\* Events are never reset.
LEMMA SignalStep ==
  ASSUME JobTyped, SignalInv, NEW t \in Thread, NEW l, Moves(t, l),
         \A e \in Event : /\ state[e] => state'[e]
                          /\ handle'[e] = "signalled" =>
                               handle[e] = "signalled" \/ state'[e],
         l = "s.signal" => state'[ev'[t]],
         t = "owner" /\ l = "delete" => state'["deletable"]
  PROVE  SignalInv'
<1>1. \A u \in Thread \ {t} : pc'[u] = pc[u] /\ ev'[u] = ev[u] /\ ev[u] \in Event
  BY DEF Moves, JobTyped
<1>2. pc'[t] = l
  BY DEF Moves, JobTyped
<1>3. \A u \in Thread : pc'[u] = "s.signal" => state'[ev'[u]]
  BY <1>1, <1>2 DEF SignalInv
<1>4. pc'["owner"] = "delete" => state'["deletable"]
  BY <1>1, <1>2 DEF SignalInv, Thread, Event
<1> QED  BY <1>3, <1>4 DEF SignalInv

\* The types, the token, and the life of the object.
Life == Inv /\ LifeInv

-----------------------------------------------------------------------------
(* COneShotEvent *)

\* Setting the state of an event.
LEMMA SetExchangeLife ==
  ASSUME Life, NEW t \in Thread, SetExchange(t), UNCHANGED uses
  PROVE  LifeInv'
<1>1. JobTyped /\ RefInv /\ ShapeInv /\ SignalInv /\ EndInv
  BY DEF Life, Inv, LifeInv
<1>2. PICK l \in {AfterSet(t), "s.signal"} : Moves(t, l) /\ pc[t] = "s.exchange"
  BY DEF SetExchange, Go, Moves
<1>3. UNCHANGED <<scheduled, inQueue, alive, handle, ret, ev, owned, uses>>
  BY DEF SetExchange, flags
<1>4. state' = [state EXCEPT ![ev[t]] = TRUE] /\ ev[t] \in Event /\ ret[t] \in BackLabel
  BY <1>1 DEF SetExchange, JobTyped
<1>5. pc'[t] = l
  BY <1>1, <1>2 DEF Moves, JobTyped
<1>6. /\ t = "owner" => OwnerAt("s.exchange", ret[t], ev[t])
                        /\ ~owned
      /\ t = "worker" => WorkerAt("s.exchange", ret[t], ev[t])
      /\ t = "remover" => RemoverAt("s.exchange", ret[t], ev[t])
  BY <1>1, <1>2 DEF ShapeInv
<1>7. RefInv'
  <2>1. (Refers(t)' <=> Refers(t)) /\ (Offers(t)' => Holds(t))
    BY <1>2, <1>3, <1>4, <1>5, <1>6
    DEF Refers, Offers, Holds, InExecute, Setting, AfterSet, OwnerAt, WorkerAt,
        RemoverAt, Thread, BackLabel, Waiting
  <2> QED  BY <1>1, <1>2, <1>3, <2>1, QuietRef
<1>8. ShapeInv'
  <2>1. t = "owner" => OwnerAt(l, ret[t], ev[t]) /\ ~owned
    BY <1>2, <1>6 DEF OwnerAt, InExecute, Setting, AfterSet, Waiting
  <2>2. t = "worker" => WorkerAt(l, ret[t], ev[t])
    BY <1>2, <1>6 DEF WorkerAt, InExecute, Setting, AfterSet
  <2>3. t = "remover" => RemoverAt(l, ret[t], ev[t])
    BY <1>2, <1>6 DEF RemoverAt, Setting, AfterSet
  <2> QED  BY <1>1, <1>2, <1>3, <2>1, <2>2, <2>3, ShapeStep
<1>9. SignalInv'
  <2>1. \A e \in Event : state[e] => state'[e]
    BY <1>1, <1>4 DEF JobTyped
  <2>2. state'[ev'[t]]
    BY <1>1, <1>3, <1>4 DEF JobTyped
  <2>3. ~(t = "owner" /\ l = "delete")
    BY <1>2, <1>6 DEF OwnerAt, InExecute, Setting, AfterSet, Waiting
  <2> QED  BY <1>1, <1>2, <1>3, <2>1, <2>2, <2>3, SignalStep
<1>10. EndInv'
  <2>1. ev[t] = "deletable" => Ending(t)
    BY <1>2 DEF Ending, Setting
  <2>2. ev[t] = "executionDone" => ~Ending(t)' /\ state'["deletable"] = state["deletable"]
    BY <1>1, <1>2, <1>3, <1>4, <1>5 DEF Ending, AfterSet, Setting, JobTyped
  <2>3. l # "schedule"
    BY <1>2, <1>4 DEF AfterSet, BackLabel
  <2> QED  BY <1>1, <1>2, <1>3, <1>4, <2>1, <2>2, <2>3, QuietEnd DEF Event
<1> QED  BY <1>7, <1>8, <1>9, <1>10 DEF LifeInv

\* Signalling the OS event, which a waiting thread may have allocated.
LEMMA SetSignalLife ==
  ASSUME Life, NEW t \in Thread, SetSignal(t), UNCHANGED uses
  PROVE  LifeInv'
<1>1. JobTyped /\ RefInv /\ ShapeInv /\ SignalInv /\ EndInv
  BY DEF Life, Inv, LifeInv
<1>2. Moves(t, AfterSet(t)) /\ pc[t] = "s.signal"
  BY DEF SetSignal, Go, Moves
<1>3. UNCHANGED <<scheduled, inQueue, alive, state, ret, ev, owned, uses>>
  BY DEF SetSignal, flags
<1>4. ev[t] \in Event /\ ret[t] \in BackLabel /\ state[ev[t]]
  BY <1>1, <1>2 DEF JobTyped, SignalInv
<1>5. pc'[t] = AfterSet(t)
  BY <1>1, <1>2 DEF Moves, JobTyped
<1>6. /\ t = "owner" => OwnerAt("s.signal", ret[t], ev[t]) /\ ~owned
      /\ t = "worker" => WorkerAt("s.signal", ret[t], ev[t])
      /\ t = "remover" => RemoverAt("s.signal", ret[t], ev[t])
  BY <1>1, <1>2 DEF ShapeInv
<1>7. RefInv'
  <2>1. (Refers(t)' <=> Refers(t)) /\ (Offers(t)' => Holds(t))
    BY <1>2, <1>3, <1>4, <1>5, <1>6
    DEF Refers, Offers, Holds, InExecute, Setting, AfterSet, OwnerAt, WorkerAt,
        RemoverAt, Thread, BackLabel, Waiting
  <2> QED  BY <1>1, <1>2, <1>3, <2>1, QuietRef
<1>8. ShapeInv'
  <2>1. t = "owner" => OwnerAt(AfterSet(t), ret[t], ev[t]) /\ ~owned
    BY <1>6 DEF OwnerAt, InExecute, Setting, AfterSet, Waiting
  <2>2. t = "worker" => WorkerAt(AfterSet(t), ret[t], ev[t])
    BY <1>6 DEF WorkerAt, InExecute, Setting, AfterSet
  <2>3. t = "remover" => RemoverAt(AfterSet(t), ret[t], ev[t])
    BY <1>6 DEF RemoverAt, Setting, AfterSet
  <2> QED  BY <1>1, <1>2, <1>3, <2>1, <2>2, <2>3, ShapeStep
<1>9. SignalInv'
  <2>1. \A e \in Event : handle'[e] = "signalled" => handle[e] = "signalled" \/ state[e]
    BY <1>1, <1>4 DEF SetSignal, JobTyped
  <2>2. AfterSet(t) # "s.signal" /\ ~(t = "owner" /\ AfterSet(t) = "delete")
    BY <1>4, <1>6 DEF OwnerAt, InExecute, Setting, AfterSet, Waiting, BackLabel
  <2> QED  BY <1>1, <1>2, <1>3, <2>1, <2>2, SignalStep
<1>10. EndInv'
  <2>1. ev[t] = "deletable" => Ending(t)
    BY <1>2 DEF Ending, Setting
  <2>2. ev[t] = "executionDone" => ~Ending(t)'
    BY <1>3, <1>5 DEF Ending, AfterSet, Setting
  <2>3. AfterSet(t) # "schedule"
    BY <1>4 DEF AfterSet, BackLabel
  <2> QED  BY <1>1, <1>2, <1>3, <1>4, <2>1, <2>2, <2>3, QuietEnd DEF Event
<1> QED  BY <1>7, <1>8, <1>9, <1>10 DEF LifeInv

\* Only clients wait; a wait ends when the state or the OS event is set.
LEMMA WaitLife ==
  ASSUME Life, NEW t \in Thread, t = "owner", UNCHANGED uses,
         WaitFor(t) \/ WaitForEndOrTimeout(t)
  PROVE  LifeInv'
<1>1. JobTyped /\ RefInv /\ ShapeInv /\ SignalInv /\ EndInv
  BY DEF Life, Inv, LifeInv
<1>2. UNCHANGED <<scheduled, inQueue, alive, state, ret, ev, owned, uses>>
  BY DEF WaitFor, WaitForEndOrTimeout, Test, Alloc, WaitBlock, flags, events
<1>3. ev[t] \in Event /\ ret[t] \in BackLabel
  BY <1>1 DEF JobTyped
<1> DEFINE Timed == {"t.test", "t.alloc", "t.block"}
<1>4. PICK l \in Waiting \cup Timed \cup {ret[t]} :
        /\ Moves(t, l) /\ pc[t] \in Waiting \cup Timed
        /\ pc[t] \in Waiting => l \in Waiting \/ (l = ret[t] /\ state[ev[t]])
        /\ pc[t] \in Timed => l \in Timed \cup {ret[t]}
  <2>1. pc[t] \in Waiting \cup Timed /\ Waiting \cap Timed = {}
    BY DEF WaitFor, WaitForEndOrTimeout, Test, Alloc, WaitBlock, Go, Waiting
  <2>2. CASE WaitFor(t)
    <3>1. handle[ev[t]] = "signalled" => state[ev[t]]
      BY <1>1, <1>3 DEF SignalInv
    <3>2. pc[t] \in Waiting
      BY <2>2 DEF WaitFor, Test, Alloc, WaitBlock, Go, Waiting
    <3> QED
      BY <1>2, <2>1, <2>2, <3>1, <3>2
      DEF WaitFor, Test, Alloc, WaitBlock, Go, Waiting, Moves
  <2>3. CASE WaitForEndOrTimeout(t)
    <3>1. pc[t] \in Timed
      BY <2>3 DEF WaitForEndOrTimeout, Alloc, Go
    <3> QED
      BY <1>2, <2>1, <2>3, <3>1 DEF WaitForEndOrTimeout, Alloc, Go, Moves
  <2> QED  BY <2>2, <2>3
<1>5. pc'[t] = l
  BY <1>1, <1>4 DEF Moves, JobTyped
<1>6. OwnerAt(pc[t], ret[t], ev[t]) /\ ~owned
  BY <1>1, <1>4 DEF ShapeInv, Waiting
<1>7. /\ pc[t] \in Waiting =>
           \/ ret[t] = "client" /\ ev[t] = "executionDone"
           \/ ret[t] = "delete" /\ ev[t] = "deletable" /\ "delete" \in uses
      /\ pc[t] \in Timed => ret[t] = "client"
  BY <1>6 DEF OwnerAt, Waiting, InExecute, Setting
<1>8. RefInv'
  <2>1. (Refers(t)' <=> Refers(t)) /\ (Offers(t)' => Holds(t))
    BY <1>2, <1>4, <1>5, <1>7
    DEF Refers, Offers, Holds, InExecute, Setting, Waiting
  <2> QED  BY <1>1, <1>2, <1>4, <2>1, QuietRef
<1>9. ShapeInv'
  <2>1. OwnerAt(l, ret[t], ev[t])
    BY <1>4, <1>7 DEF OwnerAt, Waiting
  <2> QED  BY <1>1, <1>2, <1>4, <1>6, <2>1, ShapeStep
<1>10. SignalInv'
  <2>1. \A e \in Event : handle'[e] = "signalled" => handle[e] = "signalled"
    BY <1>1, <1>3
    DEF WaitFor, WaitForEndOrTimeout, Test, Alloc, WaitBlock, JobTyped, events
  <2>2. l # "s.signal" /\ (l = "delete" => state["deletable"])
    BY <1>4, <1>7 DEF Waiting
  <2> QED  BY <1>1, <1>2, <1>4, <2>1, <2>2, SignalStep
<1>11. EndInv'
  <2>1. Ending(t)' => state["deletable"]
    BY <1>2, <1>4, <1>5, <1>7 DEF Ending, Setting, Waiting
  <2>2. l # "schedule" /\ pc["owner"] # "gone"
    BY <1>4, <1>7 DEF Waiting
  <2> QED  BY <1>1, <1>2, <1>4, <2>1, <2>2, QuietEnd
<1> QED  BY <1>8, <1>9, <1>10, <1>11 DEF LifeInv

-----------------------------------------------------------------------------
(* CJobBase *)

\* Execute up to its last test: t keeps what it holds.
LEMMA ExecuteLife ==
  ASSUME Life, NEW t \in {"owner", "worker"}, UNCHANGED uses,
         ExecuteExchange(t) \/ ExecuteRun(t) \/ ExecuteFinish(t)
  PROVE  LifeInv'
<1>1. JobTyped /\ RefInv /\ ShapeInv /\ SignalInv /\ EndInv /\ t \in Thread
  BY DEF Life, Inv, LifeInv, Thread
<1>2. UNCHANGED <<scheduled, inQueue, alive, events, ret, owned, uses>>
  BY DEF ExecuteExchange, ExecuteRun, ExecuteFinish, flags
<1>3. /\ pc[t] \in {"x.exchange", "x.run", "x.finish"}
      /\ \A u \in Thread \ {t} : ev'[u] = ev[u]
  BY <1>1 DEF ExecuteExchange, ExecuteRun, ExecuteFinish, Go, JobTyped
<1>4. PICK l \in {"x.run", "x.finish", "s.exchange", ret[t]} :
        /\ Moves(t, l)
        /\ l = "s.exchange" => ev'[t] = "executionDone"
  <2>1. ret[t] # "s.exchange"
    BY <1>1 DEF JobTyped, BackLabel
  <2>2. CASE ExecuteExchange(t)
    BY <1>2, <1>3, <2>1, <2>2 DEF ExecuteExchange, Go, Moves
  <2>3. CASE ExecuteRun(t)
    BY <1>1, <1>2, <1>3, <2>3 DEF ExecuteRun, Go, Moves, JobTyped
  <2>4. CASE ExecuteFinish(t)
    <3>1. ev[t] = "executionDone"
      BY <1>1, <2>4
      DEF ExecuteFinish, Go, ShapeInv, OwnerAt, WorkerAt, InExecute, Setting, Waiting
    <3> QED  BY <1>2, <1>3, <2>4, <3>1 DEF ExecuteFinish, Go, Moves
  <2> QED  BY <2>2, <2>3, <2>4
<1>5. pc'[t] = l /\ ret[t] \in BackLabel
  BY <1>1, <1>4 DEF Moves, JobTyped
<1>6. l = "x.finish" => ev'[t] = "executionDone"
  BY <1>1, <1>5 DEF ExecuteExchange, ExecuteRun, ExecuteFinish, Go, JobTyped, BackLabel
<1>7. /\ t = "owner" => /\ ret[t] = "o.wait" \/ (ret[t] = "d.wait" /\ "delete" \in uses)
                        /\ ~owned
      /\ t = "worker" => ret[t] = "unschedule"
  BY <1>1, <1>3 DEF ShapeInv, OwnerAt, WorkerAt, InExecute, Setting, Waiting
<1>8. RefInv'
  <2>1. (Refers(t)' <=> Refers(t)) /\ (Offers(t)' => Holds(t))
    BY <1>2, <1>3, <1>4, <1>5, <1>7 DEF Refers, Offers, Holds, InExecute, Setting
  <2> QED  BY <1>1, <1>2, <1>4, <2>1, QuietRef
<1>9. ShapeInv'
  <2>1. t = "owner" => OwnerAt(l, ret[t], ev'[t])
    BY <1>4, <1>6, <1>7 DEF OwnerAt, InExecute, Setting
  <2>2. t = "worker" => WorkerAt(l, ret[t], ev'[t])
    BY <1>4, <1>6, <1>7 DEF WorkerAt, InExecute, Setting
  <2> QED  BY <1>1, <1>2, <1>4, <1>7, <2>1, <2>2, ShapeStep
<1>10. SignalInv'
  BY <1>1, <1>2, <1>4, <1>5, <1>7, SignalStep DEF events, BackLabel
<1>11. EndInv'
  <2>1. ~Ending(t)'
    BY <1>4, <1>5, <1>7 DEF Ending, Setting
  <2>2. l # "schedule" /\ (pc["owner"] = "gone" => t # "owner")
    BY <1>3, <1>4, <1>7
  <2> QED  BY <1>1, <1>2, <1>4, <2>1, <2>2, QuietEnd DEF events
<1> QED  BY <1>8, <1>9, <1>10, <1>11 DEF LifeInv

\* The last test of Execute finds the job scheduled if the worker makes it.
LEMMA ExecuteTestLife ==
  ASSUME Life, NEW t \in {"owner", "worker"}, UNCHANGED uses, ExecuteTest(t)
  PROVE  LifeInv'
<1>1. JobTyped /\ RefInv /\ ShapeInv /\ SignalInv /\ EndInv /\ t \in Thread
  BY DEF Life, Inv, LifeInv, Thread
<1>2. /\ UNCHANGED <<scheduled, inQueue, alive, events, ret, owned, uses>>
      /\ pc[t] = "x.scheduled" /\ ev' = [ev EXCEPT ![t] = "deletable"]
  BY DEF ExecuteTest, Go, flags
<1>3. /\ t = "owner" => /\ ret[t] = "o.wait" \/ (ret[t] = "d.wait" /\ "delete" \in uses)
                        /\ ~owned
      /\ t = "worker" => ret[t] = "unschedule"
  BY <1>1, <1>2 DEF ShapeInv, OwnerAt, WorkerAt, InExecute, Setting, Waiting
<1>4. t = "worker" => scheduled
  BY <1>1, <1>2, <1>3 DEF RefInv, Refers, InExecute, Setting
<1>5. PICK l \in {"s.exchange", ret[t]} :
        Moves(t, l) /\ (l = "s.exchange" => t = "owner" /\ ~scheduled)
  BY <1>1, <1>2, <1>3, <1>4 DEF ExecuteTest, Go, Moves, JobTyped, BackLabel
<1>6. pc'[t] = l /\ ev'[t] = "deletable"
  BY <1>1, <1>2, <1>5 DEF Moves, JobTyped
<1>7. RefInv'
  <2>1. (Refers(t)' <=> Refers(t)) /\ (Offers(t)' => Holds(t))
    BY <1>2, <1>3, <1>5, <1>6 DEF Refers, Offers, Holds, InExecute, Setting
  <2> QED  BY <1>1, <1>2, <1>5, <2>1, QuietRef
<1>8. ShapeInv'
  <2>1. t = "owner" => OwnerAt(l, ret[t], ev'[t])
    BY <1>3, <1>5 DEF OwnerAt, InExecute, Setting
  <2>2. t = "worker" => WorkerAt(l, ret[t], ev'[t])
    BY <1>3, <1>5 DEF WorkerAt, InExecute, Setting
  <2> QED  BY <1>1, <1>2, <1>3, <1>5, <2>1, <2>2, ShapeStep
<1>9. SignalInv'
  BY <1>1, <1>2, <1>3, <1>5, SignalStep DEF events
<1>10. EndInv'
  <2>1. Ending(t)' => Spent
    BY <1>2, <1>3, <1>5, <1>6 DEF Ending, Setting, Spent
  <2>2. l # "schedule" /\ (pc["owner"] = "gone" => t # "owner")
    BY <1>2, <1>3, <1>5
  <2> QED  BY <1>1, <1>2, <1>5, <2>1, <2>2, QuietEnd DEF events
<1> QED  BY <1>7, <1>8, <1>9, <1>10 DEF LifeInv

\* The worker and the remover give the reference up in OnUnSchedule; it was
\* there, so that nobody else has one.
LEMMA UnScheduleExchangeLife ==
  ASSUME Life, NEW t \in {"worker", "remover"}, UNCHANGED uses,
         UnScheduleExchange(t)
  PROVE  LifeInv'
<1>1. JobTyped /\ RefInv /\ ShapeInv /\ SignalInv /\ EndInv /\ t \in Thread
  BY DEF Life, Inv, LifeInv, Thread
<1>2. /\ UNCHANGED <<inQueue, alive, events, ret, ev, owned, uses>>
      /\ pc[t] = "u.exchange" /\ scheduled' = FALSE
  BY DEF UnScheduleExchange, Go
<1>3. Refers(t) /\ scheduled /\ ~inQueue /\ \A u \in Thread \ {t} : ~Holds(u)
  BY <1>1, <1>2 DEF RefInv, Refers, Holds
<1>4. Moves(t, "u.test")
  BY <1>2, <1>3 DEF UnScheduleExchange, Go, Moves
<1>5. pc'[t] = "u.test" /\ \A u \in Thread \ {t} : pc'[u] = pc[u]
  BY <1>1, <1>4 DEF Moves, JobTyped
<1>6. /\ t = "worker" => ret[t] = "cleanup"
      /\ t = "remover" => ret[t] = "cleanup" \/ (ret[t] = "removed" /\ ~owned)
  BY <1>1, <1>2 DEF ShapeInv, WorkerAt, RemoverAt, InExecute, Setting
<1>7. RefInv'
  <2>1. \A u \in Thread \ {t} : ~Holds(u)' /\ ~Refers(u)'
    BY <1>2, <1>3, <1>5 DEF Holds, Refers, Offers
  <2>2. ~Refers(t)'
    BY <1>5 DEF Refers, InExecute, Setting
  <2> QED  BY <1>2, <1>3, <2>1, <2>2 DEF RefInv
<1>8. ShapeInv'
  BY <1>1, <1>2, <1>4, <1>6, ShapeStep DEF WorkerAt, RemoverAt
<1>9. SignalInv'
  BY <1>1, <1>2, <1>4, SignalStep DEF events
<1>10. EndInv'
  <2>1. Spent'
    BY <1>2, <1>3, <1>5 DEF Spent, Holds, Offers, Thread
  <2>2. alive \/ (pc["owner"] = "gone" /\ Final) \/ {"reschedule", "delete"} \subseteq uses
    BY <1>1 DEF EndInv
  <2>3. pc'["owner"] = pc["owner"]
    BY <1>5 DEF Thread
  <2> QED  BY <1>2, <2>1, <2>2, <2>3 DEF EndInv, Final
<1> QED  BY <1>7, <1>8, <1>9, <1>10 DEF LifeInv

\* OnUnSchedule, before it makes the job deletable.
LEMMA UnScheduleTestLife ==
  ASSUME Life, NEW t \in {"worker", "remover"}, UNCHANGED uses,
         UnScheduleTest(t)
  PROVE  LifeInv'
<1>1. JobTyped /\ RefInv /\ ShapeInv /\ SignalInv /\ EndInv /\ t \in Thread
  BY DEF Life, Inv, LifeInv, Thread
<1>2. /\ UNCHANGED <<scheduled, inQueue, alive, events, ret, owned, uses>>
      /\ pc[t] = "u.test" /\ ev' = [ev EXCEPT ![t] = "deletable"]
  BY DEF UnScheduleTest, Go, flags
<1>3. /\ t = "worker" => ret[t] = "cleanup"
      /\ t = "remover" => ret[t] = "cleanup" \/ (ret[t] = "removed" /\ ~owned)
  BY <1>1, <1>2 DEF ShapeInv, WorkerAt, RemoverAt, InExecute, Setting
<1>4. PICK l \in {"s.exchange", ret[t]} : Moves(t, l)
  BY <1>1, <1>2 DEF UnScheduleTest, Go, Moves, JobTyped
<1>5. pc'[t] = l /\ ev'[t] = "deletable"
  BY <1>1, <1>2, <1>4 DEF Moves, JobTyped
<1>6. RefInv'
  <2>1. (Refers(t)' <=> Refers(t)) /\ (Offers(t)' => Holds(t))
    BY <1>2, <1>3, <1>4, <1>5 DEF Refers, Offers, Holds, InExecute, Setting
  <2> QED  BY <1>1, <1>2, <1>4, <2>1, QuietRef
<1>7. ShapeInv'
  <2>1. t = "worker" => WorkerAt(l, ret[t], ev'[t])
    BY <1>3, <1>4, <1>5 DEF WorkerAt, Setting
  <2>2. t = "remover" => RemoverAt(l, ret[t], ev'[t])
    BY <1>3, <1>4, <1>5 DEF RemoverAt, Setting
  <2> QED  BY <1>1, <1>2, <1>4, <2>1, <2>2, ShapeStep
<1>8. SignalInv'
  BY <1>1, <1>2, <1>3, <1>4, SignalStep DEF events
<1>9. EndInv'
  <2>1. Ending(t)
    BY <1>2 DEF Ending
  <2>2. l # "schedule"
    BY <1>3, <1>4
  <2> QED  BY <1>1, <1>2, <1>4, <2>1, <2>2, QuietEnd DEF events
<1> QED  BY <1>6, <1>7, <1>8, <1>9 DEF LifeInv

\* Whoever destroys the job has seen it made deletable or owns it.
LEMMA DestroyLife ==
  ASSUME Life, NEW t \in Thread, UNCHANGED uses, Destroy(t)
  PROVE  LifeInv'
<1>1. JobTyped /\ RefInv /\ ShapeInv /\ SignalInv /\ EndInv
  BY DEF Life, Inv, LifeInv
<1>2. /\ UNCHANGED <<scheduled, inQueue, events, ret, ev, owned, uses>>
      /\ pc[t] = "delete" /\ alive' = FALSE /\ Moves(t, "gone")
  BY DEF Destroy, Go, flags, Moves
<1>3. pc'[t] = "gone" /\ \A u \in Thread \ {t} : pc'[u] = pc[u]
  BY <1>1, <1>2 DEF Moves, JobTyped
<1>4. /\ t = "owner" => "delete" \in uses /\ ~owned
      /\ t # "owner" => owned
  BY <1>1, <1>2
  DEF ShapeInv, OwnerAt, WorkerAt, RemoverAt, InExecute, Setting, Waiting, Thread
<1>5. RefInv'
  BY <1>1, <1>2, <1>3, QuietRef DEF Refers, Offers, Holds, InExecute, Setting
<1>6. ShapeInv'
  BY <1>1, <1>2, <1>4, ShapeStep DEF OwnerAt, WorkerAt, RemoverAt
<1>7. SignalInv'
  BY <1>1, <1>2, SignalStep DEF events
<1>8. EndInv'
  <2>1. Final => Spent
    BY <1>1, <1>2 DEF EndInv, Ending
  <2>2. pc'["owner"] = "gone" \/ (owned /\ pc'["owner"] = pc["owner"])
    BY <1>3, <1>4 DEF Thread
  <2>3. Spent => Spent'
    BY <1>2, <2>2 DEF Spent
  <2>4. Final /\ owned => pc["owner"] = "gone"
    BY <1>1, <2>1 DEF ShapeInv, Spent, RefInv, Refers, Thread
  <2>5. ~({"reschedule", "delete"} \subseteq uses) => Final
    BY <1>4 DEF Final
  <2>6. Final' <=> Final
    BY <1>2 DEF Final
  <2> QED  BY <1>2, <2>1, <2>2, <2>3, <2>4, <2>5, <2>6 DEF EndInv, Final
<1> QED  BY <1>5, <1>6, <1>7, <1>8 DEF LifeInv

-----------------------------------------------------------------------------
(* The threads *)

\* Schedule: the reference that t could take is taken, and goes to the queue.
LEMMA ScheduleLife ==
  ASSUME Life, UNCHANGED uses,
         NEW t \in Thread, NEW from, NEW back,
         \/ /\ t = "owner" /\ from = "schedule"
            /\ back = IF owned THEN "gone" ELSE "client"
         \/ t = "remover" /\ from = "reschedule" /\ back = "idle",
         Schedule(t, from, back)
  PROVE  LifeInv'
<1>1. JobTyped /\ RefInv /\ ShapeInv /\ SignalInv /\ EndInv
  BY DEF Life, Inv, LifeInv
<1>2. /\ UNCHANGED <<alive, events, ev, owned, uses>>
      /\ \A u \in Thread \ {t} : ret'[u] = ret[u]
  BY <1>1 DEF Schedule, Call, flags, JobTyped
<1>3. CASE Call(t, from, "push", back) /\ scheduled' = TRUE /\ inQueue' = inQueue
  <2>1. /\ pc[t] = from /\ Moves(t, "push") /\ ret'[t] = back
        /\ pc'[t] = "push"
        /\ \A u \in Thread \ {t} : pc'[u] = pc[u]
    BY <1>1, <1>2, <1>3 DEF Call, Go, Moves, JobTyped
  <2>2. Offers(t) /\ ~inQueue /\ \A u \in Thread \ {t} : ~Holds(u)
    BY <1>1, <2>1 DEF RefInv, Holds, Offers
  <2>3. RefInv'
    <3>1. \A u \in Thread \ {t} : ~Holds(u)' /\ ~Refers(u)'
      BY <1>2, <2>1, <2>2 DEF Holds, Refers, Offers
    <3>2. Refers(t)'
      BY <2>1 DEF Refers
    <3> QED  BY <1>3, <2>2, <3>1, <3>2 DEF RefInv
  <2>4. ShapeInv'
    <3>1. t = "remover" => ~owned /\ "reschedule" \in uses
      BY <1>1, <2>1 DEF ShapeInv, RemoverAt, Setting
    <3> QED  BY <1>1, <1>2, <2>1, <3>1, ShapeStep DEF OwnerAt, RemoverAt
  <2>5. SignalInv'
    BY <1>1, <1>2, <2>1, SignalStep DEF events
  <2>6. EndInv'
    <3>1. Final => ~Spent
      BY <1>1, <2>1 DEF ShapeInv, RemoverAt, Final, Spent, Setting
    <3>2. Final => ~state["deletable"] /\ \A u \in Thread : ~Ending(u)
      BY <1>1, <3>1 DEF EndInv
    <3>3. \A u \in Thread : Ending(u)' => Ending(u)
      BY <1>2, <2>1 DEF Ending, Setting
    <3>4. alive \/ {"reschedule", "delete"} \subseteq uses
      BY <1>1, <3>1 DEF EndInv
    <3> QED  BY <1>2, <3>2, <3>3, <3>4 DEF EndInv, Final, events
  <2> QED  BY <2>3, <2>4, <2>5, <2>6 DEF LifeInv
<1>4. CASE Go(t, "push", ret[t]) /\ inQueue' = TRUE /\ UNCHANGED <<scheduled, ret>>
  <2>1. /\ pc[t] = "push" /\ Moves(t, ret[t]) /\ ret'[t] = ret[t]
        /\ pc'[t] = ret[t]
        /\ \A u \in Thread \ {t} : pc'[u] = pc[u]
    BY <1>1, <1>2, <1>4 DEF Go, Moves, JobTyped
  <2>2. Refers(t) /\ scheduled /\ ~inQueue /\ \A u \in Thread \ {t} : ~Holds(u)
    BY <1>1, <2>1 DEF RefInv, Holds, Refers
  <2>3. /\ t = "owner" => ret[t] = IF owned THEN "gone" ELSE "client"
        /\ t = "remover" => ret[t] = "idle"
        /\ t \in {"owner", "remover"}
    BY <1>1, <2>1 DEF ShapeInv, OwnerAt, RemoverAt, InExecute, Setting, Waiting
  <2>4. RefInv'
    <3>1. \A u \in Thread : ~Holds(u)' /\ ~Refers(u)'
      BY <1>2, <2>1, <2>2, <2>3 DEF Holds, Refers, Offers, InExecute, Setting
    <3> QED  BY <1>4, <2>2, <3>1 DEF RefInv
  <2>5. ShapeInv'
    BY <1>1, <1>2, <2>1, <2>3, ShapeStep DEF OwnerAt, RemoverAt
  <2>6. SignalInv'
    BY <1>1, <1>2, <2>1, <2>3, SignalStep DEF events
  <2>7. EndInv'
    <3>1. ~Ending(t)' /\ ret[t] # "schedule"
      BY <2>1, <2>3 DEF Ending, Setting
    <3> QED  BY <1>1, <1>2, <1>4, <2>1, <3>1, QuietEnd DEF events
  <2> QED  BY <2>4, <2>5, <2>6, <2>7 DEF LifeInv
<1> QED  BY <1>3, <1>4 DEF Schedule, flags

\* A client calls the job, without taking up or giving up the reference.
LEMMA ClientLife ==
  ASSUME Life, UNCHANGED uses,
         Observe("owner", "client") \/ Delete("owner", "client")
  PROVE  LifeInv'
<1> DEFINE t == "owner"
<1>1. JobTyped /\ RefInv /\ ShapeInv /\ SignalInv /\ EndInv /\ t \in Thread
  BY DEF Life, Inv, LifeInv, Thread
<1>2. /\ UNCHANGED <<scheduled, inQueue, alive, events, owned, uses>>
      /\ \A u \in Thread \ {t} : ret'[u] = ret[u] /\ ev'[u] = ev[u]
  BY <1>1
  DEF Observe, Delete, DeleteStart, DeleteExecute, DeleteWait, Call, flags, JobTyped
<1>3. PICK l \in {"client", "o.wait", "x.exchange", "w.test", "t.test", "d.waiting",
                  "d.wait"} :
        Moves(t, l) /\ pc[t] \in {"client", "o.wait", "d.waiting", "d.wait"}
  BY <1>2
  DEF Observe, Delete, DeleteStart, DeleteExecute, DeleteWait, Call, Go, Moves
<1>4. pc'[t] = l
  BY <1>1, <1>3 DEF Moves, JobTyped
<1>5. ~owned
  BY <1>1, <1>3 DEF ShapeInv
<1>6. OwnerAt(l, ret'[t], ev'[t])
  <2>1. pc[t] \in {"d.waiting", "d.wait"} => "delete" \in uses
    BY <1>1 DEF ShapeInv, OwnerAt, InExecute, Setting, Waiting
  <2>2. ret \in [Thread -> BackLabel] /\ ev \in [Thread -> Event]
    BY <1>1 DEF JobTyped
  <2>3. \/ l \in {"client", "o.wait"}
        \/ l \in {"d.waiting", "d.wait"} /\ "delete" \in uses
        \/ l = "x.exchange" /\ ret'[t] = "o.wait"
        \/ l = "x.exchange" /\ ret'[t] = "d.wait" /\ "delete" \in uses
        \/ l = "w.test" /\ ret'[t] = "client" /\ ev'[t] = "executionDone"
        \/ l = "w.test" /\ ret'[t] = "delete" /\ ev'[t] = "deletable" /\ "delete" \in uses
        \/ l = "t.test" /\ ret'[t] = "client"
    <3>1. CASE Observe(t, "client")
      BY <1>1, <1>4, <2>2, <3>1 DEF Observe, Call, Go, JobTyped
    <3>2. CASE DeleteStart(t, "client")
      BY <1>1, <1>4, <3>2 DEF DeleteStart, Go, JobTyped
    <3>3. CASE DeleteExecute(t)
      BY <1>1, <1>4, <2>1, <2>2, <3>3 DEF DeleteExecute, Call, Go, JobTyped
    <3>4. CASE DeleteWait(t)
      BY <1>1, <1>4, <2>1, <2>2, <3>4 DEF DeleteWait, Call, Go, JobTyped
    <3> QED  BY <3>1, <3>2, <3>3, <3>4 DEF Delete
  <2> QED  BY <2>3 DEF OwnerAt, InExecute, Waiting
<1>7. RefInv'
  <2>1. ~Refers(t) /\ ~Offers(t)'
    BY <1>3, <1>4 DEF Refers, Offers, InExecute, Setting
  <2>2. ~Refers(t)'
    BY <1>4, <1>6 DEF Refers, OwnerAt, InExecute, Setting, Waiting
  <2> QED  BY <1>1, <1>2, <1>3, <2>1, <2>2, QuietRef
<1>8. ShapeInv'
  BY <1>1, <1>2, <1>3, <1>5, <1>6, ShapeStep
<1>9. SignalInv'
  BY <1>1, <1>2, <1>3, SignalStep DEF events
<1>10. EndInv'
  <2>1. ~Ending(t)' /\ l # "schedule" /\ pc["owner"] # "gone"
    BY <1>3, <1>4 DEF Ending, Setting
  <2> QED  BY <1>1, <1>2, <1>3, <2>1, QuietEnd DEF events
<1> QED  BY <1>7, <1>8, <1>9, <1>10 DEF LifeInv

\* The reference goes from the queue to the thread that takes the job out.
LEMMA TakeLife ==
  ASSUME Life, UNCHANGED uses, NEW t \in {"worker", "remover"}, NEW l, NEW back,
         \/ t = "worker" /\ l = "x.exchange" /\ back = "unschedule"
         \/ t = "remover" /\ l = "u.exchange" /\ back = "removed" /\ ~owned
         \/ t = "remover" /\ l = "u.exchange" /\ back = "cleanup",
         Take(t, l, back)
  PROVE  LifeInv'
<1>1. JobTyped /\ RefInv /\ ShapeInv /\ SignalInv /\ EndInv /\ t \in Thread
  BY DEF Life, Inv, LifeInv, Thread
<1>2. /\ UNCHANGED <<scheduled, alive, events, ev, owned, uses>>
      /\ \A u \in Thread \ {t} : ret'[u] = ret[u]
      /\ Moves(t, l) /\ ret'[t] = back
      /\ inQueue /\ ~inQueue'
  BY <1>1 DEF Take, Call, Go, flags, JobTyped, Moves
<1>3. pc'[t] = l /\ \A u \in Thread \ {t} : pc'[u] = pc[u]
  BY <1>1, <1>2 DEF Moves, JobTyped
<1>4. RefInv'
  <2>1. scheduled /\ \A u \in Thread : ~Holds(u)
    BY <1>1, <1>2 DEF RefInv
  <2>2. \A u \in Thread \ {t} : ~Holds(u)' /\ ~Refers(u)'
    BY <1>2, <1>3, <2>1 DEF Holds, Refers, Offers
  <2>3. Refers(t)'
    BY <1>2, <1>3 DEF Refers, InExecute
  <2> QED  BY <1>1, <1>2, <2>1, <2>2, <2>3 DEF RefInv
<1>5. ShapeInv'
  BY <1>1, <1>2, ShapeStep DEF WorkerAt, RemoverAt, InExecute
<1>6. SignalInv'
  BY <1>1, <1>2, SignalStep DEF events
<1>7. EndInv'
  BY <1>1, <1>2, <1>3, QuietEnd DEF Ending, Setting, events
<1> QED  BY <1>4, <1>5, <1>6, <1>7 DEF LifeInv

\* What the worker and the remover do in between.
LEMMA BetweenLife ==
  ASSUME Life, UNCHANGED uses, NEW t \in {"worker", "remover"},
         \/ /\ t = "worker" /\ Call(t, "unschedule", "u.exchange", "cleanup")
            /\ UNCHANGED <<flags, events, owned, inQueue, alive, effects, ev>>
         \/ /\ t = "remover"
            /\ Go(t, "removed", IF "reschedule" \in uses /\ ~terminated
                                  THEN "reschedule" ELSE "idle")
            /\ UNCHANGED <<flags, events, owned, inQueue, alive, effects, ret, ev>>
         \/ Cleanup(t)
  PROVE  LifeInv'
<1>1. JobTyped /\ RefInv /\ ShapeInv /\ SignalInv /\ EndInv /\ t \in Thread
  BY DEF Life, Inv, LifeInv, Thread
<1>2. /\ UNCHANGED <<scheduled, inQueue, alive, events, ev, owned, uses>>
      /\ \A u \in Thread \ {t} : ret'[u] = ret[u]
  BY <1>1 DEF Call, Cleanup, flags, JobTyped
<1>3. PICK l \in {"u.exchange", "reschedule", "idle", "delete"} :
        /\ Moves(t, l)
        /\ \/ t = "worker" /\ pc[t] = "unschedule" /\ l = "u.exchange" /\ ret'[t] = "cleanup"
           \/ /\ t = "remover" /\ pc[t] = "removed"
              /\ l = "idle" \/ (l = "reschedule" /\ "reschedule" \in uses)
           \/ pc[t] = "cleanup" /\ (l = "idle" \/ (l = "delete" /\ owned))
  BY <1>1, <1>2 DEF Call, Cleanup, Go, Moves, JobTyped
<1>4. pc'[t] = l
  BY <1>1, <1>3 DEF Moves, JobTyped
<1>5. RefInv'
  <2>1. (Refers(t)' <=> Refers(t)) /\ (Offers(t)' => Holds(t))
    BY <1>3, <1>4 DEF Refers, Offers, Holds, InExecute, Setting
  <2> QED  BY <1>1, <1>2, <1>3, <2>1, QuietRef
<1>6. ShapeInv'
  <2>1. pc[t] = "removed" /\ t = "remover" => ~owned
    BY <1>1 DEF ShapeInv, RemoverAt, Setting
  <2> QED  BY <1>1, <1>2, <1>3, <2>1, ShapeStep DEF WorkerAt, RemoverAt
<1>7. SignalInv'
  BY <1>1, <1>2, <1>3, SignalStep DEF events
<1>8. EndInv'
  <2>1. Ending(t)' => Ending(t)
    BY <1>3, <1>4 DEF Ending, Setting
  <2> QED  BY <1>1, <1>2, <1>3, <2>1, QuietEnd DEF events
<1> QED  BY <1>5, <1>6, <1>7, <1>8 DEF LifeInv

\* Every step of every thread.
LEMMA NextLife ==
  ASSUME Life, [Next]_vars
  PROVE  Life'
<1>1. Inv'
  BY NextInv DEF Life
<1>2. {"owner", "worker", "remover"} \subseteq Thread
  BY DEF Thread
<1>3. OwnerStep => LifeInv'
  BY <1>2, ScheduleLife, ClientLife, ExecuteLife, ExecuteTestLife, SetExchangeLife,
     SetSignalLife, WaitLife, DestroyLife
  DEF OwnerStep, Execute
<1>4. WorkerStep => LifeInv'
  BY <1>2, TakeLife, BetweenLife, ExecuteLife, ExecuteTestLife, SetExchangeLife,
     SetSignalLife, UnScheduleExchangeLife, UnScheduleTestLife, DestroyLife
  DEF WorkerStep, Execute, OnUnSchedule
<1>5. RemoverStep => LifeInv'
  BY <1>2, TakeLife, BetweenLife, ScheduleLife, SetExchangeLife,
     SetSignalLife, UnScheduleExchangeLife, UnScheduleTestLife, DestroyLife
  DEF RemoverStep, OnUnSchedule
<1>6. UNCHANGED vars => LifeInv'
  <2>1. SUFFICES ASSUME UNCHANGED <<uses, scheduled, state, handle, owned, inQueue,
                                    alive, pc, ret, ev>>
                 PROVE  LifeInv'
    BY DEF vars, flags, events
  <2>2. RefInv'  BY <2>1 DEF Life, LifeInv, RefInv, Holds, Refers, Offers
  <2>3. ShapeInv'
    BY <2>1 DEF Life, LifeInv, ShapeInv, OwnerAt, WorkerAt, RemoverAt
  <2>4. SignalInv'  BY <2>1 DEF Life, LifeInv, SignalInv
  <2>5. EndInv'  BY <2>1 DEF Life, LifeInv, EndInv, Final, Spent, Ending
  <2> QED  BY <2>2, <2>3, <2>4, <2>5 DEF LifeInv
<1>7. LifeInv'
  BY <1>3, <1>4, <1>5, <1>6 DEF Next
<1> QED  BY <1>1, <1>7 DEF Life

\* It is an invariant.
LEMMA SpecLife == Spec => []Life
<1>1. Init => Life
  BY InitInv, InitLife DEF Life
<1>2. Life /\ [Next]_vars => Life'
  BY NextLife
<1> QED  BY <1>1, <1>2, PTL DEF Spec

-----------------------------------------------------------------------------
(* The theorems *)

\* The assertions in CJobBase::OnSchedule and OnUnSchedule: a job is neither
\* scheduled twice nor taken out twice, whatever the clients do with it; it is
\* scheduled by one who has it, and taken out by one who has taken the
\* reference from the queue.
THEOREM JobScheduledOnce == Spec => []ScheduledConsistently
<1>1. Life => ScheduledConsistently
  BY DEF Life, LifeInv, RefInv, Holds, Refers, Offers, InExecute, Setting,
         ScheduledConsistently, At
<1> QED  BY <1>1, SpecLife, PTL

\* IJob.h: "The job must not be deleted before this function [OnUnSchedule] has
\* been called."  A destroyed job is in no queue and nobody executes it; for all
\* clients but those that delete jobs that somebody schedules again.
THEOREM JobOutlivesQueue ==
  Spec => [](~({"reschedule", "delete"} \subseteq uses) => NotDeletedWhileScheduled)
<1>1. ASSUME Life, ~({"reschedule", "delete"} \subseteq uses)
      PROVE  NotDeletedWhileScheduled
  <2>1. SUFFICES ASSUME ~alive
                 PROVE  /\ ~inQueue /\ ~scheduled
                        /\ \A t \in Thread :
                             pc[t] \notin {"push", "x.exchange", "x.run", "x.finish",
                                         "x.scheduled", "u.exchange"}
    BY DEF NotDeletedWhileScheduled, At
  <2>2. ~scheduled /\ pc["owner"] = "gone"
    BY <1>1, <2>1 DEF Life, LifeInv, EndInv, Spent
  <2>3. ~inQueue /\ \A t \in Thread : ~Refers(t)
    BY <1>1, <2>2 DEF Life, LifeInv, RefInv
  <2>4. \A t \in {"worker", "remover"} :
          pc[t] \in {"x.exchange", "x.run", "x.finish", "x.scheduled"} => Refers(t)
    BY <1>1 DEF Life, LifeInv, ShapeInv, WorkerAt, RemoverAt, Refers, InExecute, Setting
  <2> QED  BY <2>2, <2>3, <2>4 DEF Refers, Thread
<1>2. Life => (~({"reschedule", "delete"} \subseteq uses) => NotDeletedWhileScheduled)
  BY <1>1
<1> QED  BY <1>2, SpecLife, PTL

\* CFuture::GetResult: a wait for a job returns when the job is finished or has
\* been cancelled, and by then the result is what it will be.
THEOREM WaitsForResult == Spec => WaitMeansDone
<1> DEFINE Returns(t) == /\ At(t, {"w.test", "w.retest", "w.block"})
                         /\ pc'[t] = "client"
           Done == result \in {"complete", "cancelled"} \/ terminated
<1>1. ASSUME Life, Next, NEW t \in Thread, Returns(t)
      PROVE  Done
  <2>1. JobTyped /\ TokenInv /\ ShapeInv /\ SignalInv
    BY <1>1 DEF Life, Inv, LifeInv
  <2>2. pc[t] \in Waiting \ {"w.alloc"} /\ pc'[t] = "client"
    BY <1>1 DEF At, Waiting
  <2>3. /\ t = "owner"
        /\ \/ ret[t] = "client" /\ ev[t] = "executionDone"
           \/ ret[t] = "delete" /\ ev[t] = "deletable"
    BY <2>1, <2>2
    DEF ShapeInv, OwnerAt, WorkerAt, RemoverAt, InExecute, Setting, Waiting, Thread
  <2>4. OwnerStep /\ WaitFor(t)
    <3>1. ~WorkerStep /\ ~RemoverStep
      BY <2>1, <2>2, <2>3
      DEF WorkerStep, RemoverStep, Take, Execute, ExecuteExchange, ExecuteRun, 
          ExecuteFinish, ExecuteTest, OnUnSchedule, UnScheduleExchange, UnScheduleTest,
          SetExchange, SetSignal, Cleanup, Destroy, Schedule, Call, Go, JobTyped,
          Thread, Waiting
    <3>2. OwnerStep
      BY <1>1, <3>1 DEF Next
    <3> QED
      BY <2>2, <2>3, <3>2
      DEF OwnerStep, Schedule, Observe, Delete, DeleteStart, DeleteExecute, DeleteWait,
          Execute, ExecuteExchange, ExecuteRun, ExecuteFinish, ExecuteTest,
          SetExchange, SetSignal, WaitForEndOrTimeout, Alloc, Destroy, Call, Go, Waiting
  <2>5. ret[t] = "client" /\ state["executionDone"]
    <3>1. state[ev[t]] \/ handle[ev[t]] = "signalled"
      BY <2>1, <2>2, <2>4 DEF WaitFor, Test, Alloc, WaitBlock, Go, JobTyped, Waiting
    <3>2. ret[t] = "client"
      BY <2>1, <2>2, <2>4 DEF WaitFor, Test, Alloc, WaitBlock, Go, JobTyped, Waiting
    <3> QED  BY <2>1, <2>3, <3>1, <3>2 DEF SignalInv, Event
  <2> QED
    BY <2>1, <2>5 DEF TokenInv, Settled, JobTyped
<1>2. Life /\ [Next]_vars
        => [\A t \in Thread :
              At(t, {"w.test", "w.retest", "w.block"}) /\ pc'[t] = "client"
                => result \in {"complete", "cancelled"} \/ terminated]_vars
  BY <1>1
<1> QED  BY <1>2, SpecLife, PTL DEF Spec, WaitMeansDone

=============================================================================
