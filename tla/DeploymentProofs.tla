-------------------------- MODULE DeploymentProofs --------------------------
(***************************************************************************)
(* What a deployment may do to the device, and what its records say of it, *)
(* for any number of operators, objects and runs.                          *)
(*                                                                         *)
(* All of it rests on the lock: a process that checks, pushes or finishes  *)
(* holds it, so that nobody else pushes, and nobody resets what others     *)
(* changed, while it does.  The inductive invariant follows one push       *)
(* object by object - what is behind it is on the device or was changed by *)
(* others, what is before it comes later in the order - and, for the logs, *)
(* that a line has the hashes of the last chaining, or none.               *)
(***************************************************************************)
EXTENDS Deployment, TLAPS

Holding ==
    \A p \in Op : /\ pc[p] \in Inside => lock = p
                  /\ pc[p] \in Inside \ {"login"} => ledger.status = "in_progress"

Started ==
    \A p \in Op : pc[p] # "idle" =>
        /\ run[p].id \in Run /\ run[p].conf \in Version
        /\ pc[p] \in {"approve", "record"} => run[p].exec

Recorded ==
    ~clash =>
        /\ govern # Torn /\ wrote \subseteq govern
        /\ \A p \in Op : pc[p] \in {"lock"} \cup Inside /\ run[p].exec =>
              run[p].id \in govern
        /\ \A p \in Op : pc[p] = "record" => copy[p] = govern
        /\ \A p, q \in Op : pc[p] = "record" /\ pc[q] = "record" => p = q

\* What p has pushed of its configuration.
Behind(p) == Content[run[p].conf] \ left[p]

Pushing ==
    \A p \in Op : pc[p] \in {"push", "finish"} =>
        /\ left[p] \subseteq Content[run[p].conf]
        /\ pc[p] = "finish" => left[p] = {}
        /\ \A o \in Behind(p), n \in left[p] : Section[o] <= Section[n]
        /\ run[p].exec /\ ~run[p].failed =>
              \A o \in Behind(p) : dev[o] = run[p].conf \/ o \in late
        /\ run[p].exec /\ ~run[p].blind =>
              \A o \in Servers \cap Home \cap left[p] : dev[o] = "absent" \/ o \in late

\* A log nobody chained; one as it is written by a chaining, and by a first one;
\* one whose lines still have the hashes they got then, or none.
New(log)   == \A i \in DOMAIN log : log[i].hash = << >>
Whole(log) == \A i \in DOMAIN log :
                 /\ log[i].hash # << >> /\ log[i].hash[Len(log[i].hash)] = log[i].body
                 /\ log[i].prev = IF i = 1 THEN Genesis ELSE log[i - 1].hash
Once(log)  == \A i \in DOMAIN log : Intact(log[i])
Traced(log, was) ==
    \A i \in DOMAIN log : log[i].hash # << >> =>
        \E j \in DOMAIN was : log[i].hash = was[j].hash /\ log[i].prev = was[j].prev

LogIs(log, h) ==
    /\ h.how = "never" => New(log)
    /\ h.how = "once"  => log = h.was /\ Once(log)
    /\ Whole(h.was) /\ Traced(log, h.was)

Logged ==
    /\ LogIs(flat, chained["flat"]) /\ LogIs(bus, chained["bus"])
    /\ chainer # None /\ chained["bus"].how = "never" => New(chainer)

Finished ==
    /\ CleanDoneIsDeployed
    /\ ledger.status = "done" => ledger.conf \in Version

DeployInv ==
    TypeOK /\ Holding /\ Started /\ Recorded /\ Pushing /\ Finished /\ Logged

\* A step of the command or around it, whatever becomes of the lock: types,
\* numbers, records and logs rest on nothing else.
Unlocked ==
    \/ \E p \in Op : Command(p) \/ Refused(p) \/ Enter(p) \/ Ends(p) \/ Kill(p)
    \/ Others
    \/ UNCHANGED <<conf, dev, govern, ledger, bus, flat, pc, run, left, copy, chainer, runs,
                   meddling, chains, wrote, clash, late, chained>>
-----------------------------------------------------------------------------
\* The locals of no process, and what the ledger says of one.
LEMMA IdleIsTyped == Idle \in Locals /\ Said("pending", Idle) \in Word
BY Bounds DEF Idle, Locals, Said, Word

\* What a run says of itself is a word of the ledger.
LEMMA SaidIsTyped ==
    ASSUME NEW r \in Locals, NEW w \in {"in_progress", "failed", "done"}
    PROVE  Said(w, r) \in Word
BY DEF Said, Word, Locals

\* The locals of a run that starts.
LEMMA StartedLocals ==
    ASSUME NEW id \in 0 .. MaxRuns, NEW exec \in BOOLEAN, NEW v \in Version
    PROVE  /\ [Idle EXCEPT !.id = id, !.exec = exec, !.conf = v] \in Locals
           /\ [Idle EXCEPT !.id = id, !.exec = exec, !.conf = v].id = id
           /\ [Idle EXCEPT !.id = id, !.exec = exec, !.conf = v].exec = exec
           /\ [Idle EXCEPT !.id = id, !.exec = exec, !.conf = v].conf = v
BY DEF Idle, Locals

\* A flag of a run that is set leaves the rest of its locals.
LEMMA ChangedLocals ==
    ASSUME NEW r \in Locals, NEW b \in BOOLEAN
    PROVE  /\ [r EXCEPT !.blind = b] \in Locals
           /\ [r EXCEPT !.blind = b].blind = b
           /\ [r EXCEPT !.blind = b].id = r.id /\ [r EXCEPT !.blind = b].exec = r.exec
           /\ [r EXCEPT !.blind = b].conf = r.conf /\ [r EXCEPT !.blind = b].failed = r.failed
           /\ [r EXCEPT !.failed = TRUE] \in Locals
           /\ [r EXCEPT !.failed = TRUE].failed = TRUE
           /\ [r EXCEPT !.failed = TRUE].id = r.id /\ [r EXCEPT !.failed = TRUE].exec = r.exec
           /\ [r EXCEPT !.failed = TRUE].conf = r.conf
           /\ [r EXCEPT !.failed = TRUE].blind = r.blind
BY DEF Locals

\* A log may be empty.  A fresh line is a line.
LEMMA FreshIsTyped ==
    ASSUME NEW b \in Event
    PROVE  /\ Fresh(b) \in Line /\ Fresh(b).hash = << >>
           /\ << >> \in Seq(Line) /\ <<Fresh(b)>> \in Seq(Line)
<1>1. << >> \in Seq(Event)
  OBVIOUS
<1> QED BY <1>1 DEF Fresh, Line, Hash, Genesis

\* A line of a log that is chained: its hash grows by its body.
LEMMA RehashedLine ==
    ASSUME NEW l \in Line, NEW h \in Hash
    PROVE  LET n == [Rehashed(l) EXCEPT !.prev = h] IN
           /\ Rehashed(l).hash \in Hash
           /\ n \in Line /\ n.body = l.body /\ n.prev = h
           /\ n.hash = Rehashed(l).hash /\ n.hash = Append(l.hash, l.body)
<1>1. l.body \in Event /\ l.hash \in Seq(Event)
  BY DEF Line, Hash
<1>2. Append(l.hash, l.body) \in Seq(Event)
  BY <1>1
<1> QED BY <1>2 DEF Rehashed, Line, Hash

\* Chaining gives a log again, line by line.
LEMMA ChainIsTyped ==
    ASSUME NEW log \in Seq(Line)
    PROVE  /\ Chain(log) \in Seq(Line) /\ DOMAIN Chain(log) = DOMAIN log
           /\ \A i \in DOMAIN log :
                 /\ Chain(log)[i].body = log[i].body
                 /\ Chain(log)[i].hash = Append(log[i].hash, log[i].body)
                 /\ Chain(log)[i].prev = IF i = 1 THEN Genesis ELSE Chain(log)[i - 1].hash
<1> DEFINE link(i) == IF i = 1 THEN Genesis ELSE Rehashed(log[i - 1]).hash
<1>1. \A i \in DOMAIN log : log[i] \in Line /\ (i # 1 => i - 1 \in DOMAIN log)
  OBVIOUS
<1>2. Genesis \in Hash
  BY DEF Genesis, Hash
<1>3. \A i \in DOMAIN log : link(i) \in Hash
  BY <1>1, <1>2, RehashedLine
<1>4. Chain(log) = [i \in DOMAIN log |-> [Rehashed(log[i]) EXCEPT !.prev = link(i)]]
  BY DEF Chain
<1> HIDE DEF link
<1>5. ASSUME NEW i \in DOMAIN log
      PROVE  /\ Chain(log)[i] \in Line /\ Chain(log)[i].body = log[i].body
             /\ Chain(log)[i].hash = Rehashed(log[i]).hash
             /\ Chain(log)[i].hash = Append(log[i].hash, log[i].body)
             /\ Chain(log)[i].prev = link(i)
  <2>1. Chain(log)[i] = [Rehashed(log[i]) EXCEPT !.prev = link(i)]
    BY <1>4
  <2> QED BY <1>1, <1>3, <2>1, RehashedLine
<1>6. \A i \in DOMAIN log : i # 1 => link(i) = Chain(log)[i - 1].hash
  BY <1>1, <1>5 DEF link
<1>7. \A i \in DOMAIN log : i = 1 => link(i) = Genesis
  BY DEF link
<1>8. DOMAIN log = 1 .. Len(log) /\ Len(log) \in Nat
  OBVIOUS
<1>9. Chain(log) \in [1 .. Len(log) -> Line]
  BY <1>4, <1>5, <1>8
<1>10. Chain(log) \in Seq(Line)
  BY <1>8, <1>9
<1> QED BY <1>4, <1>5, <1>6, <1>7, <1>10

\* What was tampered with is a log, of lines with the hashes they had.
LEMMA TamperedIsTyped ==
    ASSUME NEW log \in Seq(Line), NEW t \in Tampered(log)
    PROVE  /\ t \in Seq(Line)
           /\ \A i \in DOMAIN t : \E j \in DOMAIN log :
                 t[i].hash = log[j].hash /\ t[i].prev = log[j].prev
<1>1. \A i \in DOMAIN log : log[i] \in Line
  OBVIOUS
<1>2. DOMAIN log = 1 .. Len(log) /\ Len(log) \in Nat
  OBVIOUS
<1>3. CASE \E k \in DOMAIN log : t = Without(log, k)
  <2>1. PICK k \in 1 .. Len(log) : t = [j \in 1 .. (Len(log) - 1) |-> log[IF j < k THEN j ELSE j + 1]]
    BY <1>2, <1>3 DEF Without
  <2>2. \A j \in 1 .. (Len(log) - 1) : (IF j < k THEN j ELSE j + 1) \in DOMAIN log
    BY <1>2
  <2>3. DOMAIN t = 1 .. (Len(log) - 1) /\ Len(log) - 1 \in Nat
    BY <1>2, <2>1
  <2>4. t \in [1 .. (Len(log) - 1) -> Line]
    BY <1>1, <2>1, <2>2
  <2>5. t \in Seq(Line)
    BY <2>3, <2>4
  <2>6. \A j \in DOMAIN t : t[j] = log[IF j < k THEN j ELSE j + 1]
    BY <2>1, <2>3
  <2> QED BY <2>2, <2>3, <2>5, <2>6
<1>4. CASE \E k \in DOMAIN log, b \in Event : t = Edited(log, k, b)
  <2>1. PICK k \in DOMAIN log, b \in Event : t = Edited(log, k, b)
    BY <1>4
  <2>2. /\ [log[k] EXCEPT !.body = b] \in Line
        /\ [log[k] EXCEPT !.body = b].hash = log[k].hash
        /\ [log[k] EXCEPT !.body = b].prev = log[k].prev
    BY <1>1 DEF Line
  <2>3. t = [log EXCEPT ![k] = [log[k] EXCEPT !.body = b]]
    BY <2>1 DEF Edited
  <2>4. t \in Seq(Line) /\ DOMAIN t = DOMAIN log
    BY <2>2, <2>3
  <2>5. \A i \in DOMAIN log : t[i] = IF i = k THEN [log[k] EXCEPT !.body = b] ELSE log[i]
    BY <2>3
  <2> QED BY <2>2, <2>4, <2>5
<1> QED BY <1>3, <1>4 DEF Tampered
-----------------------------------------------------------------------------
\* Before the first run, nothing is pushed, recorded or chained.
LEMMA InitInv == Init => DeployInv
<1> SUFFICES ASSUME Init PROVE DeployInv
  OBVIOUS
<1>0. /\ flat = << >> \/ \E i \in Run : flat = <<Fresh(<<i, "start">>)>>
      /\ bus = << >> /\ chainer = None /\ clash = FALSE
  BY DEF Init
<1> USE DEF Init
<1>1. TypeOK
  <2>1. flat \in Seq(Line)
    <3>1. \A i \in Run : <<i, "start">> \in Event
      BY DEF Event
    <3>2. << >> \in Seq(Line)
      OBVIOUS
    <3> HIDE DEF Init
    <3> QED BY <1>0, <3>1, <3>2, FreshIsTyped
  <2>2. dev \in [Obj -> {"absent", "foreign"} \cup Version]
    OBVIOUS
  <2>3. run \in [Op -> Locals] /\ ledger \in Word
    BY IdleIsTyped
  <2>4. /\ pc \in [Op -> Place] /\ left \in [Op -> SUBSET Obj] /\ copy \in [Op -> SUBSET Run]
    BY DEF Place
  <2>5. bus \in Seq(Line) /\ chainer \in Seq(Line) \cup {None} /\ clash \in BOOLEAN
    <3> HIDE DEF Init
    <3>1. bus \in Seq(Line)
      BY <1>0
    <3>2. clash \in BOOLEAN
      BY <1>0
    <3> QED BY <1>0, <3>1, <3>2
  <2>6. chained \in [{"bus", "flat"} -> Chaining]
    BY DEF Chaining
  <2>7. runs \in 0 .. MaxRuns /\ meddling \in 0 .. MaxMeddling /\ chains \in 0 .. MaxChains
    BY Bounds
  <2> QED BY <2>1, <2>2, <2>3, <2>4, <2>5, <2>6, <2>7 DEF TypeOK
<1>2. Holding /\ Started /\ Pushing
  BY DEF Holding, Started, Pushing, Inside
<1>3. Recorded
  BY TornIsNoRecord DEF Recorded, Inside
<1>4. Finished
  BY DEF Finished, CleanDoneIsDeployed, Said
<1>5. Logged
  <2>1. New(flat) /\ New(bus)
    BY DEF New, Fresh
  <2>2. Whole(<< >>) /\ Traced(flat, << >>) /\ Traced(bus, << >>)
    BY <2>1 DEF Whole, Traced, New
  <2> QED BY <2>1, <2>2 DEF Logged, LogIs
<1> QED BY <1>1, <1>2, <1>3, <1>4, <1>5 DEF DeployInv
-----------------------------------------------------------------------------
\* The steps keep the types.
LEMMA ExitIsTyped ==
    ASSUME TypeOK, NEW p \in Op, Exit(p)
    PROVE  /\ pc' \in [Op -> Place] /\ run' \in [Op -> Locals]
           /\ left' \in [Op -> SUBSET Obj] /\ copy' \in [Op -> SUBSET Run]
BY IdleIsTyped DEF Exit, TypeOK, Place

\* What is noted of a log when it is written to, and when it is chained.
LEMMA TouchedIsTyped ==
    ASSUME TypeOK, NEW f \in {"bus", "flat"}, Touched(f)
    PROVE  /\ chained' \in [{"bus", "flat"} -> Chaining]
           /\ chained'[f].was = chained[f].was
           /\ chained'[f].how = IF chained[f].how = "once" THEN "stale" ELSE chained[f].how
           /\ \A g \in {"bus", "flat"} \ {f} : chained'[g] = chained[g]
<1> DEFINE how == IF chained[f].how = "once" THEN "stale" ELSE chained[f].how
           h == [how |-> how, was |-> chained[f].was]
<1>1. chained \in [{"bus", "flat"} -> Chaining] /\ chained[f] \in Chaining
  BY DEF TypeOK
<1>2. h \in Chaining /\ h.how = how /\ h.was = chained[f].was
  BY <1>1 DEF Chaining
<1>3. chained' = [chained EXCEPT ![f] = h]
  BY DEF Touched
<1> HIDE DEF h
<1> QED BY <1>1, <1>2, <1>3

LEMMA ChainedIsTyped ==
    ASSUME TypeOK, NEW f \in {"bus", "flat"}, NEW log \in Seq(Line), Chained(f, log)
    PROVE  /\ chained' \in [{"bus", "flat"} -> Chaining]
           /\ chained'[f].was = log
           /\ chained'[f].how = IF chained[f].how = "never" THEN "once" ELSE "stale"
           /\ \A g \in {"bus", "flat"} \ {f} : chained'[g] = chained[g]
<1> DEFINE how == IF chained[f].how = "never" THEN "once" ELSE "stale"
           h == [how |-> how, was |-> log]
<1>1. chained \in [{"bus", "flat"} -> Chaining]
  BY DEF TypeOK
<1>2. h \in Chaining /\ h.how = how /\ h.was = log
  BY DEF Chaining
<1>3. chained' = [chained EXCEPT ![f] = h]
  BY DEF Chained
<1> HIDE DEF h
<1> QED BY <1>1, <1>2, <1>3

\* Every step that keeps the lock's type keeps the types.
LEMMA TypeStep == TypeOK /\ Started /\ Unlocked /\ lock' \in Op \cup {None} => TypeOK'
<1> SUFFICES ASSUME TypeOK, Started, Unlocked, lock' \in Op \cup {None} PROVE TypeOK'
  OBVIOUS
<1> USE DEF TypeOK, Go, files, logs, bounds
<1>1. ASSUME NEW p \in Op, NEW exec \in BOOLEAN, Start(p, exec) PROVE TypeOK'
  <2> DEFINE r == [Idle EXCEPT !.id = runs + 1, !.exec = exec, !.conf = conf]
  <2>1. runs + 1 \in 0 .. MaxRuns
    BY <1>1, Bounds DEF Start
  <2>2. r \in Locals
    BY <2>1, StartedLocals
  <2> HIDE DEF r
  <2>3. run' = [run EXCEPT ![p] = r] /\ runs' = runs + 1
    BY <1>1 DEF Start, r
  <2>4. run' \in [Op -> Locals] /\ runs' \in 0 .. MaxRuns
    BY <2>1, <2>2, <2>3
  <2>5. pc' \in [Op -> Place]
    BY <1>1 DEF Start, Place
  <2> QED BY <1>1, <2>4, <2>5 DEF Start
<1>2. ASSUME NEW p \in Op, GateRefuses(p) PROVE TypeOK'
  BY <1>2, ExitIsTyped DEF GateRefuses
<1>3. ASSUME NEW p \in Op, LoadRecords(p) PROVE TypeOK'
  <2>1. clash' \in BOOLEAN
    BY <1>3 DEF LoadRecords
  <2>2. pc' \in [Op -> Place] /\ copy' \in [Op -> SUBSET Run]
    <3>1. (IF govern = Torn THEN {} ELSE govern) \in SUBSET Run
      OBVIOUS
    <3>2. copy' = [copy EXCEPT ![p] = IF govern = Torn THEN {} ELSE govern]
      BY <1>3 DEF LoadRecords
    <3> QED BY <1>3, <3>1, <3>2 DEF LoadRecords, Place
  <2> QED BY <1>3, <2>1, <2>2 DEF LoadRecords
<1>4. ASSUME NEW p \in Op, SaveRecord(p) PROVE TypeOK'
  <2>1. run[p].id \in Run
    BY <1>4 DEF SaveRecord, Started
  <2> QED BY <1>4, <2>1 DEF SaveRecord, Place
<1>5. ASSUME NEW p \in Op, Refused(p) PROVE TypeOK'
  BY <1>5, ExitIsTyped DEF Refused
<1>6. ASSUME NEW p \in Op, LoginFails(p) PROVE TypeOK'
  BY <1>6, ExitIsTyped DEF LoginFails
<1>7. ASSUME NEW p \in Op, Begin(p) PROVE TypeOK'
  <2>1. <<run[p].id, "start">> \in Event /\ run[p] \in Locals
    BY <1>7 DEF Begin, Started, Event
  <2>2. bus' \in Seq(Line)
    BY <1>7, <2>1, FreshIsTyped DEF Begin, Emit
  <2>3. ledger' \in Word
    BY <1>7, <2>1, SaidIsTyped DEF Begin
  <2>4. chained' \in [{"bus", "flat"} -> Chaining]
    BY <1>7, TouchedIsTyped DEF Begin, Emit
  <2> QED BY <1>7, <2>2, <2>3, <2>4 DEF Begin, Emit, Place, Inside
<1>8. ASSUME NEW p \in Op, NEW blind \in BOOLEAN, ChecksPass(p, blind) PROVE TypeOK'
  <2>1. run' = [run EXCEPT ![p] = [run[p] EXCEPT !.blind = blind]]
    BY <1>8 DEF ChecksPass
  <2>2. [run[p] EXCEPT !.blind = blind] \in Locals
    <3>1. run[p] \in Locals
      OBVIOUS
    <3> HIDE DEF TypeOK
    <3> QED BY <3>1, ChangedLocals
  <2>3. run' \in [Op -> Locals]
    BY <2>1, <2>2
  <2>4. Content[run[p].conf] \subseteq Obj
    BY <1>8, ConstantsAreSets DEF ChecksPass, Started
  <2> QED BY <1>8, <2>3, <2>4 DEF ChecksPass, Place, Inside
<1>9. ASSUME NEW p \in Op, ChecksFail(p) PROVE TypeOK'
  BY <1>9, ExitIsTyped, SaidIsTyped DEF ChecksFail
<1>10. ASSUME NEW p \in Op, NEW o \in Obj, Rehearse(p, o) PROVE TypeOK'
  BY <1>10 DEF Rehearse, Done
<1>11. ASSUME NEW p \in Op, NEW o \in Obj, Push(p, o) PROVE TypeOK'
  <2>1. run[p].id \in Run /\ run[p].conf \in Version
    BY <1>11 DEF Push, Started
  <2> QED BY <1>11, <2>1 DEF Push, Done
<1>12. ASSUME NEW p \in Op, NEW o \in Obj, NEW applied \in BOOLEAN, PushFails(p, o, applied)
       PROVE  TypeOK'
  <2>1. run[p].id \in Run /\ run[p].conf \in Version
    BY <1>12 DEF PushFails, Started
  <2>2. run' = [run EXCEPT ![p] = [run[p] EXCEPT !.failed = TRUE]]
    BY <1>12 DEF PushFails
  <2>3. [run[p] EXCEPT !.failed = TRUE] \in Locals
    <3>1. run[p] \in Locals
      OBVIOUS
    <3> HIDE DEF TypeOK
    <3> QED BY <3>1, ChangedLocals
  <2>4. run' \in [Op -> Locals]
    BY <2>2, <2>3
  <2>5. dev' \in [Obj -> {"absent", "foreign"} \cup Version] /\ wrote' \subseteq Run
    BY <1>12, <2>1 DEF PushFails
  <2> QED BY <1>12, <2>4, <2>5 DEF PushFails, Done
<1>13. ASSUME NEW p \in Op, Pushed(p) PROVE TypeOK'
  <2>1. <<run[p].id, "end">> \in Event
    BY <1>13 DEF Pushed, Started, Event
  <2>2. bus' \in Seq(Line)
    BY <1>13, <2>1, FreshIsTyped DEF Pushed, Emit
  <2>3. chained' \in [{"bus", "flat"} -> Chaining]
    BY <1>13, TouchedIsTyped DEF Pushed, Emit
  <2> QED BY <1>13, <2>2, <2>3 DEF Pushed, Emit, Place, Inside
<1>14. ASSUME NEW p \in Op, Finish(p) PROVE TypeOK'
  <2>1. flat' \in Seq(Line)
    BY <1>14, ChainIsTyped DEF Finish
  <2>2. chained' \in [{"bus", "flat"} -> Chaining]
    BY <1>14, <2>1, ChainedIsTyped DEF Finish
  <2>3. ledger' \in Word
    BY <1>14, SaidIsTyped DEF Finish
  <2> QED BY <1>14, <2>1, <2>2, <2>3, ExitIsTyped DEF Finish
<1>15. ASSUME NEW p \in Op, Kill(p) PROVE TypeOK'
  <2>1. clash' \in BOOLEAN
    BY <1>15 DEF Kill
  <2>2. govern' \in (SUBSET Run) \cup {Torn}
    BY <1>15 DEF Kill
  <2> QED BY <1>15, <2>1, <2>2, ExitIsTyped DEF Kill
<1>16. ASSUME NEW p \in Op, Enter(p) PROVE TypeOK'
  BY <1>16 DEF Enter, Place, Inside
<1>17. ASSUME NEW v \in Version, Transform(v) PROVE TypeOK'
  BY <1>17, Bounds DEF Transform
<1>18. ASSUME NEW o \in Obj, NEW what \in {"absent", "foreign"}, Meddle(o, what) PROVE TypeOK'
  BY <1>18, Bounds DEF Meddle
<1>19. CASE ChainReads
  BY <1>19, Bounds DEF ChainReads
<1>20. CASE ChainWrites
  <2>1. bus' \in Seq(Line)
    BY <1>20, ChainIsTyped DEF ChainWrites
  <2>2. chained' \in [{"bus", "flat"} -> Chaining]
    BY <1>20, <2>1, ChainedIsTyped DEF ChainWrites
  <2> QED BY <1>20, <2>1, <2>2 DEF ChainWrites
<1>21. CASE Tamper
  <2>1. bus' \in Seq(Line) /\ flat' \in Seq(Line)
    BY <1>21, TamperedIsTyped DEF Tamper
  <2>2. chained' \in [{"bus", "flat"} -> Chaining]
    BY <1>21, TouchedIsTyped DEF Tamper
  <2>3. meddling' \in 0 .. MaxMeddling
    BY <1>21, Bounds DEF Tamper
  <2> QED BY <1>21, <2>1, <2>2, <2>3 DEF Tamper
<1>22. CASE UNCHANGED <<conf, dev, govern, ledger, bus, flat, pc, run, left, copy, chainer,
                       runs, meddling, chains, wrote, clash, late, chained>>
  BY <1>22
<1> QED
  BY <1>1, <1>2, <1>3, <1>4, <1>5, <1>6, <1>7, <1>8, <1>9, <1>10, <1>11, <1>12, <1>13,
     <1>14, <1>15, <1>16, <1>17, <1>18, <1>19, <1>20, <1>22, <1>21
  DEF Unlocked, Command, Ends, Others
-----------------------------------------------------------------------------
\* A process that ends is nowhere, and the others are where they were.
LEMMA Ended ==
    ASSUME TypeOK, NEW p \in Op, Exit(p)
    PROVE  /\ pc'[p] = "idle"
           /\ \A q \in Op \ {p} : /\ pc'[q] = pc[q] /\ run'[q] = run[q]
                                  /\ left'[q] = left[q] /\ copy'[q] = copy[q]
BY DEF Exit, TypeOK

\* A process that goes on is somewhere else, and the others are where they were.
LEMMA Moved ==
    ASSUME TypeOK, NEW p \in Op, NEW from, NEW to, Go(p, from, to)
    PROVE  pc[p] = from /\ pc'[p] = to /\ \A q \in Op \ {p} : pc'[q] = pc[q]
BY DEF Go, TypeOK

\* Who checks, pushes or finishes has the lock, and the ledger says that
\* somebody is at it.
LEMMA HoldingStep == DeployInv /\ [Next]_vars => Holding'
<1> SUFFICES ASSUME DeployInv, [Next]_vars PROVE Holding'
  OBVIOUS
<1>0. TypeOK /\ Holding
  BY DEF DeployInv
<1> USE <1>0 DEF files, logs, bounds, Holding, Inside
<1>1. ASSUME NEW p \in Op, Exit(p), UNCHANGED <<lock, ledger>> PROVE Holding'
  BY <1>1, Ended
<1>2. ASSUME NEW p \in Op, NEW from, NEW to \in {"approve", "record", "lock"}, Go(p, from, to),
             UNCHANGED <<lock, ledger>>
      PROVE  Holding'
  BY <1>2, Moved
<1>3. ASSUME NEW p \in Op, NEW from \in {"check", "push"}, NEW to, Go(p, from, to),
             UNCHANGED <<lock, ledger>>
      PROVE  Holding'
  BY <1>3, Moved
<1>4. ASSUME NEW p \in Op, Leave(p) PROVE Holding'
  <2>1. Exit(p) /\ pc[p] \in Inside
    BY <1>4 DEF Leave, Ends, LoginFails, ChecksFail, Finish
  <2>2. \A q \in Op \ {p} : pc[q] \notin Inside
    BY <2>1
  <2> QED BY <2>1, <2>2, Ended
<1>5. ASSUME UNCHANGED <<pc, lock, ledger>> PROVE Holding'
  BY <1>5
<1>6. ASSUME NEW p \in Op, NEW exec \in BOOLEAN, Start(p, exec) PROVE Holding'
  BY <1>2, <1>6 DEF Start
<1>7. ASSUME NEW p \in Op, GateRefuses(p) \/ LockConflict(p) \/ Kill(p) PROVE Holding'
  BY <1>1, <1>7 DEF GateRefuses, LockConflict, Refused, Kill
<1>8. ASSUME NEW p \in Op, LoadRecords(p) \/ SaveRecord(p) PROVE Holding'
  BY <1>2, <1>8 DEF LoadRecords, SaveRecord
<1>9. ASSUME NEW p \in Op, TakeLock(p) PROVE Holding'
  <2>1. lock = None /\ \A q \in Op : pc[q] \notin Inside
    BY <1>9, NothingIsNoOne DEF TakeLock
  <2>2. pc'[p] = "login" /\ \A q \in Op \ {p} : pc'[q] = pc[q]
    BY <1>9, Moved DEF TakeLock, Enter
  <2>3. lock' = p
    BY <1>9 DEF TakeLock
  <2> QED BY <2>1, <2>2, <2>3
<1>10. ASSUME NEW p \in Op, Begin(p) PROVE Holding'
  <2>1. pc[p] = "login" /\ pc'[p] = "check" /\ \A q \in Op \ {p} : pc'[q] = pc[q]
    BY <1>10, Moved DEF Begin
  <2>2. lock' = lock /\ ledger'.status = "in_progress"
    BY <1>10 DEF Begin, Said
  <2> QED BY <2>1, <2>2
<1>11. ASSUME NEW p \in Op, (\E blind \in BOOLEAN : ChecksPass(p, blind)) \/ Pushed(p)
       PROVE  Holding'
  BY <1>3, <1>11 DEF ChecksPass, Pushed
<1>12. CASE LockGoesStale
  BY <1>12 DEF LockGoesStale
<1>13. ASSUME NEW p \in Op, NEW o \in Obj,
              \/ Rehearse(p, o) \/ Push(p, o) \/ \E applied \in BOOLEAN : PushFails(p, o, applied)
       PROVE  Holding'
  BY <1>5, <1>13 DEF Rehearse, Push, PushFails
<1>14. CASE \/ \E v \in Version : Transform(v)
            \/ \E o \in Obj, what \in {"absent", "foreign"} : Meddle(o, what)
            \/ ChainReads \/ ChainWrites \/ Tamper \/ UNCHANGED vars
  BY <1>5, <1>14 DEF Transform, Meddle, ChainReads, ChainWrites, Tamper, vars
<1> QED
  BY <1>4, <1>6, <1>7, <1>8, <1>9, <1>10, <1>11, <1>12, <1>13, <1>14 DEF Next, Command, Others

\* A process that has started keeps the number and the configuration it began with.
LEMMA StartedStep == TypeOK /\ Started /\ Unlocked => Started'
<1> SUFFICES ASSUME TypeOK, Started, Unlocked PROVE Started'
  OBVIOUS
<1> USE DEF files, logs, bounds, Started
<1>1. ASSUME NEW p \in Op, Exit(p) PROVE Started'
  BY <1>1, Ended
<1>2. ASSUME NEW p \in Op, NEW from, NEW to, Go(p, from, to), from # "idle",
             to \in {"approve", "record"} => run[p].exec, UNCHANGED run
      PROVE  Started'
  BY <1>2, Moved
<1>3. ASSUME UNCHANGED <<pc, run>> PROVE Started'
  BY <1>3
<1>4. ASSUME NEW p \in Op, NEW exec \in BOOLEAN, Start(p, exec) PROVE Started'
  <2> DEFINE r == [Idle EXCEPT !.id = runs + 1, !.exec = exec, !.conf = conf]
  <2>1. runs + 1 \in 0 .. MaxRuns /\ runs + 1 \in Run /\ conf \in Version
    BY <1>4, Bounds DEF Start, TypeOK, Run
  <2>2. r.id = runs + 1 /\ r.exec = exec /\ r.conf = conf
    BY DEF Idle
  <2> HIDE DEF r
  <2>3. run' = [run EXCEPT ![p] = r]
    BY <1>4 DEF Start, r
  <2>4. pc'[p] = (IF exec THEN "approve" ELSE "lock") /\ \A q \in Op \ {p} : pc'[q] = pc[q]
    BY <1>4, Moved DEF Start
  <2>5. run'[p] = r /\ \A q \in Op \ {p} : run'[q] = run[q]
    BY <2>3 DEF TypeOK
  <2>6. pc'[p] \in {"approve", "record"} => run'[p].exec
    <3>1. CASE exec
      <4>1. exec = TRUE
        BY <3>1
      <4>2. run'[p].exec
        BY <2>2, <2>5, <4>1, Zenon
      <4> QED BY <4>2
    <3>2. CASE ~exec
      BY <2>4, <3>2
    <3> QED BY <3>1, <3>2
  <2> QED BY <2>1, <2>2, <2>4, <2>5, <2>6
<1>5. ASSUME NEW p \in Op, GateRefuses(p) \/ Refused(p) \/ Ends(p) \/ Kill(p) PROVE Started'
  BY <1>1, <1>5 DEF GateRefuses, Refused, Ends, LoginFails, ChecksFail, Finish, Kill
<1>6. ASSUME NEW p \in Op, LoadRecords(p) \/ SaveRecord(p) \/ Enter(p) \/ Begin(p) \/ Pushed(p)
      PROVE  Started'
  <2>1. CASE LoadRecords(p)
    BY <1>2, <2>1 DEF LoadRecords, Go
  <2>2. CASE SaveRecord(p)
    BY <1>2, <2>2 DEF SaveRecord
  <2>3. CASE Enter(p)
    BY <1>2, <2>3 DEF Enter
  <2>4. CASE Begin(p)
    BY <1>2, <2>4 DEF Begin
  <2>5. CASE Pushed(p)
    BY <1>2, <2>5 DEF Pushed
  <2> QED BY <1>6, <2>1, <2>2, <2>3, <2>4, <2>5
<1>7. ASSUME NEW p \in Op, NEW blind \in BOOLEAN, ChecksPass(p, blind) PROVE Started'
  <2>1. run' = [run EXCEPT ![p] = [run[p] EXCEPT !.blind = blind]] /\ run[p] \in Locals
    BY <1>7 DEF ChecksPass, TypeOK
  <2>2. run'[p].id = run[p].id /\ run'[p].conf = run[p].conf
        /\ \A q \in Op \ {p} : run'[q] = run[q]
    BY <2>1, ChangedLocals DEF TypeOK
  <2>3. pc[p] = "check" /\ pc'[p] = "push" /\ \A q \in Op \ {p} : pc'[q] = pc[q]
    BY <1>7, Moved DEF ChecksPass
  <2> QED BY <2>2, <2>3
<1>8. ASSUME NEW p \in Op, NEW o \in Obj, NEW applied \in BOOLEAN, PushFails(p, o, applied)
      PROVE  Started'
  <2>1. run' = [run EXCEPT ![p] = [run[p] EXCEPT !.failed = TRUE]] /\ run[p] \in Locals
    BY <1>8 DEF PushFails, TypeOK
  <2>2. run'[p].id = run[p].id /\ run'[p].conf = run[p].conf
        /\ \A q \in Op \ {p} : run'[q] = run[q]
    BY <2>1, ChangedLocals DEF TypeOK
  <2>3. pc[p] = "push" /\ pc' = pc
    BY <1>8 DEF PushFails
  <2> QED BY <2>2, <2>3
<1>9. ASSUME NEW p \in Op, NEW o \in Obj, Rehearse(p, o) \/ Push(p, o) PROVE Started'
  BY <1>3, <1>9 DEF Rehearse, Push
<1>10. CASE Others \/ UNCHANGED <<pc, run>>
  BY <1>3, <1>10 DEF Others, Transform, Meddle, ChainReads, ChainWrites, Tamper
<1> QED
  BY <1>4, <1>5, <1>6, <1>7, <1>8, <1>9, <1>10 DEF Unlocked, Command
-----------------------------------------------------------------------------
\* As long as nobody saves at the same time as another or dies in saving, every
\* run that may write has its record, and the copy that will be saved is current.
LEMMA RecordedStep == TypeOK /\ Started /\ Recorded /\ Unlocked => Recorded'
<1> SUFFICES ASSUME TypeOK, Started, Recorded, Unlocked PROVE Recorded'
  OBVIOUS
<1> USE DEF files, logs, bounds, Inside
<1>1. ASSUME NEW p \in Op, Exit(p), UNCHANGED <<govern, clash, wrote>> PROVE Recorded'
  BY <1>1, Ended DEF Recorded
<1>2. ASSUME NEW p \in Op, NEW from \in {"lock", "login", "check", "push"}, NEW to \in Inside,
             Go(p, from, to), UNCHANGED <<govern, clash, wrote, copy>>,
             \A q \in Op : run'[q].id = run[q].id /\ run'[q].exec = run[q].exec
      PROVE  Recorded'
  BY <1>2, Moved DEF Recorded
<1>3. ASSUME UNCHANGED <<pc, run, copy, govern, clash, wrote>> PROVE Recorded'
  BY <1>3 DEF Recorded
<1>4. ASSUME NEW p \in Op, NEW exec \in BOOLEAN, Start(p, exec) PROVE Recorded'
  <2> DEFINE r == [Idle EXCEPT !.id = runs + 1, !.exec = exec, !.conf = conf]
  <2>1. r.exec = exec
    BY DEF Idle
  <2> HIDE DEF r
  <2>2. run'[p] = r /\ \A q \in Op \ {p} : run'[q] = run[q]
    BY <1>4 DEF Start, r, TypeOK
  <2>3. pc'[p] = (IF exec THEN "approve" ELSE "lock") /\ \A q \in Op \ {p} : pc'[q] = pc[q]
    BY <1>4, Moved DEF Start
  <2>4. ~(pc'[p] \in {"lock"} \cup Inside /\ run'[p].exec)
    <3>1. CASE exec
      BY <2>3, <3>1
    <3>2. CASE ~exec
      <4>1. exec = FALSE
        BY <3>2
      <4>2. ~run'[p].exec
        BY <2>1, <2>2, <4>1, Zenon
      <4> QED BY <4>2
    <3> QED BY <3>1, <3>2
  <2>5. pc'[p] # "record" /\ UNCHANGED <<govern, clash, wrote, copy>>
    BY <1>4, <2>3 DEF Start
  <2> QED BY <2>2, <2>3, <2>4, <2>5 DEF Recorded
<1>5. ASSUME NEW p \in Op, GateRefuses(p) \/ Refused(p) \/ Ends(p) PROVE Recorded'
  BY <1>1, <1>5 DEF GateRefuses, Refused, Ends, LoginFails, ChecksFail, Finish
<1>6. ASSUME NEW p \in Op, Kill(p) PROVE Recorded'
  <2>1. ~clash' => ~clash /\ govern' = govern
    BY <1>6 DEF Kill
  <2> QED BY <1>6, <2>1, Ended DEF Kill, Recorded
<1>7. ASSUME NEW p \in Op, LoadRecords(p) PROVE Recorded'
  <2>1. ~clash' => ~clash /\ \A q \in Op \ {p} : pc[q] # "record"
    BY <1>7 DEF LoadRecords
  <2>2. pc'[p] = "record" /\ \A q \in Op \ {p} : pc'[q] = pc[q]
    BY <1>7, Moved DEF LoadRecords
  <2>3. copy'[p] = IF govern = Torn THEN {} ELSE govern
    BY <1>7 DEF LoadRecords, TypeOK
  <2>4. UNCHANGED <<govern, wrote, run>>
    BY <1>7 DEF LoadRecords
  <2> QED BY <2>1, <2>2, <2>3, <2>4 DEF Recorded
<1>8. ASSUME NEW p \in Op, SaveRecord(p) PROVE Recorded'
  <2>1. pc[p] = "record" /\ pc'[p] = "lock" /\ \A q \in Op \ {p} : pc'[q] = pc[q]
    BY <1>8, Moved DEF SaveRecord
  <2>2. govern' = copy[p] \cup {run[p].id} /\ UNCHANGED <<clash, wrote, run, copy>>
    BY <1>8 DEF SaveRecord
  <2>3. govern' \in SUBSET (1 .. MaxRuns)
    BY <2>1, <2>2 DEF TypeOK, Started, Run
  <2>4. govern' # Torn
    BY <2>3, TornIsNoRecord
  <2>5. ~clash => govern \subseteq govern' /\ \A q \in Op \ {p} : pc[q] # "record"
    BY <2>1, <2>2 DEF Recorded
  <2> QED BY <2>1, <2>2, <2>4, <2>5 DEF Recorded
<1>9. ASSUME NEW p \in Op, Enter(p) \/ Begin(p) \/ Pushed(p) PROVE Recorded'
  BY <1>2, <1>9 DEF Enter, Begin, Pushed
<1>10. ASSUME NEW p \in Op, NEW blind \in BOOLEAN, ChecksPass(p, blind) PROVE Recorded'
  <2>1. run' = [run EXCEPT ![p] = [run[p] EXCEPT !.blind = blind]] /\ run[p] \in Locals
    BY <1>10 DEF ChecksPass, TypeOK
  <2>2. \A q \in Op : run'[q].id = run[q].id /\ run'[q].exec = run[q].exec
    BY <2>1, ChangedLocals DEF TypeOK
  <2> QED BY <1>2, <1>10, <2>2 DEF ChecksPass
<1>11. ASSUME NEW p \in Op, pc[p] = "push", run[p].exec, wrote' \subseteq wrote \cup {run[p].id},
              UNCHANGED <<pc, copy, govern, clash>>,
              \A q \in Op : run'[q].id = run[q].id /\ run'[q].exec = run[q].exec
       PROVE  Recorded'
  BY <1>11 DEF Recorded
<1>12. ASSUME NEW p \in Op, NEW o \in Obj, Push(p, o) PROVE Recorded'
  BY <1>11, <1>12 DEF Push
<1>13. ASSUME NEW p \in Op, NEW o \in Obj, NEW applied \in BOOLEAN, PushFails(p, o, applied)
       PROVE  Recorded'
  <2>1. run' = [run EXCEPT ![p] = [run[p] EXCEPT !.failed = TRUE]] /\ run[p] \in Locals
    BY <1>13 DEF PushFails, TypeOK
  <2>2. \A q \in Op : run'[q].id = run[q].id /\ run'[q].exec = run[q].exec
    BY <2>1, ChangedLocals DEF TypeOK
  <2> QED BY <1>11, <1>13, <2>2 DEF PushFails
<1>14. ASSUME NEW p \in Op, NEW o \in Obj, Rehearse(p, o) PROVE Recorded'
  BY <1>3, <1>14 DEF Rehearse
<1>15. CASE Others \/ UNCHANGED <<pc, run, copy, govern, clash, wrote>>
  BY <1>3, <1>15 DEF Others, Transform, Meddle, ChainReads, ChainWrites, Tamper
<1> QED
  BY <1>4, <1>5, <1>6, <1>7, <1>8, <1>9, <1>10, <1>12, <1>13, <1>14, <1>15
  DEF Unlocked, Command
-----------------------------------------------------------------------------
\* What is behind a push has been done or was changed by others, and what is
\* before it comes later in the order.
LEMMA PushingStep == DeployInv /\ [Next]_vars => Pushing'
<1> SUFFICES ASSUME DeployInv, [Next]_vars PROVE Pushing'
  OBVIOUS
<1>0. TypeOK /\ Holding /\ Started /\ Pushing
  BY DEF DeployInv
<1> USE <1>0 DEF files, logs, bounds
<1>1. \A p \in Op : pc[p] \in {"check", "push", "finish"} =>
         \A q \in Op \ {p} : ~(pc[q] \in {"push", "finish"})
  BY DEF Holding, Inside
<1>2. ASSUME NEW p \in Op, Exit(p), UNCHANGED <<dev, late>> PROVE Pushing'
  BY <1>2, Ended DEF Pushing, Behind
<1>3. ASSUME NEW p \in Op, pc'[p] \in {"approve", "record", "lock", "login", "check"},
             \A q \in Op \ {p} : pc'[q] = pc[q] /\ run'[q] = run[q],
             UNCHANGED <<left, dev, late>>
      PROVE  Pushing'
  BY <1>3 DEF Pushing, Behind
<1>4. ASSUME UNCHANGED <<pc, run, left, dev, late>> PROVE Pushing'
  BY <1>4 DEF Pushing, Behind
<1>5. ASSUME NEW p \in Op, NEW exec \in BOOLEAN, Start(p, exec) PROVE Pushing'
  <2>1. \A q \in Op \ {p} : run'[q] = run[q]
    BY <1>5 DEF Start, TypeOK
  <2>2. pc'[p] \in {"approve", "lock"} /\ \A q \in Op \ {p} : pc'[q] = pc[q]
    BY <1>5, Moved DEF Start
  <2> QED BY <1>3, <1>5, <2>1, <2>2 DEF Start
<1>6. ASSUME NEW p \in Op, GateRefuses(p) \/ LockConflict(p) \/ Leave(p) \/ Kill(p)
      PROVE  Pushing'
  BY <1>2, <1>6 DEF GateRefuses, LockConflict, Refused, Leave, Ends, LoginFails, ChecksFail,
                    Finish, Kill
<1>7. ASSUME NEW p \in Op, LoadRecords(p) \/ SaveRecord(p) \/ TakeLock(p) \/ Begin(p)
      PROVE  Pushing'
  BY <1>3, <1>7, Moved DEF LoadRecords, SaveRecord, TakeLock, Enter, Begin
<1>8. ASSUME NEW p \in Op, NEW blind \in BOOLEAN, ChecksPass(p, blind) PROVE Pushing'
  <2>1. run' = [run EXCEPT ![p] = [run[p] EXCEPT !.blind = blind]] /\ run[p] \in Locals
    BY <1>8 DEF ChecksPass, TypeOK
  <2>2. run'[p].conf = run[p].conf /\ run'[p].blind = blind
    BY <2>1, ChangedLocals DEF TypeOK
  <2>3. pc[p] = "check" /\ pc'[p] = "push" /\ \A q \in Op \ {p} : pc'[q] = pc[q]
    BY <1>8, Moved DEF ChecksPass
  <2>4. left'[p] = Content[run[p].conf] /\ UNCHANGED dev
    BY <1>8 DEF ChecksPass, TypeOK
  <2>5. ~run'[p].blind =>
           \A o \in Servers \cap Home \cap Content[run[p].conf] : dev[o] = "absent"
    BY <1>8, <2>2 DEF ChecksPass, Conflict
  <2>6. Behind(p)' = {}
    BY <2>2, <2>4 DEF Behind
  <2>7. \A q \in Op : pc'[q] \in {"push", "finish"} => q = p
    BY <1>1, <2>3
  <2> QED BY <2>2, <2>3, <2>4, <2>5, <2>6, <2>7 DEF Pushing
<1>9. ASSUME NEW p \in Op, NEW o \in NextUp(p), pc[p] = "push", UNCHANGED <<pc, late>>,
             left' = [left EXCEPT ![p] = @ \ {o}],
             run'[p].conf = run[p].conf,
             \A u \in Obj \ {o} : dev'[u] = dev[u],
             run'[p].exec /\ ~run'[p].failed =>
                 run[p].exec /\ ~run[p].failed /\ dev'[o] = run[p].conf,
             run'[p].exec /\ ~run'[p].blind => run[p].exec /\ ~run[p].blind
      PROVE  Pushing'
  <2>1. /\ left'[p] = left[p] \ {o} /\ o \in left[p]
        /\ \A u \in left[p] : Section[o] <= Section[u]
    BY <1>9 DEF NextUp, TypeOK
  <2>2. /\ left[p] \subseteq Content[run[p].conf] /\ Content[run[p].conf] \subseteq Obj
    BY <1>9, ConstantsAreSets DEF Pushing, Started
  <2>3. Behind(p)' = Behind(p) \cup {o}
    BY <1>9, <2>1, <2>2 DEF Behind
  <2>4. \A u \in Behind(p)', n \in left'[p] : Section[u] <= Section[n]
    BY <1>9, <2>1, <2>3 DEF Pushing
  <2>5. run'[p].exec /\ ~run'[p].failed =>
            \A u \in Behind(p)' : dev'[u] = run'[p].conf \/ u \in late'
    <3> SUFFICES ASSUME run'[p].exec /\ ~run'[p].failed, NEW u \in Behind(p)', u # o
                 PROVE  dev'[u] = run'[p].conf \/ u \in late'
      BY <1>9
    <3>1. u \in Behind(p) /\ u \in Obj
      BY <2>2, <2>3 DEF Behind
    <3> QED BY <1>9, <3>1 DEF Pushing
  <2>6. run'[p].exec /\ ~run'[p].blind =>
            \A u \in Servers \cap Home \cap left'[p] : dev'[u] = "absent" \/ u \in late'
    BY <1>9, <2>1, <2>2 DEF Pushing
  <2>7. \A q \in Op : pc'[q] \in {"push", "finish"} => q = p
    BY <1>1, <1>9
  <2> QED BY <1>9, <2>1, <2>2, <2>4, <2>5, <2>6, <2>7 DEF Pushing
<1>10. ASSUME NEW p \in Op, NEW o \in Obj, Rehearse(p, o) PROVE Pushing'
  BY <1>9, <1>10 DEF Rehearse, Done
<1>11. ASSUME NEW p \in Op, NEW o \in Obj, Push(p, o) PROVE Pushing'
  <2>1. dev' = [dev EXCEPT ![o] = run[p].conf]
    BY <1>11 DEF Push
  <2>2. dev'[o] = run[p].conf /\ \A u \in Obj \ {o} : dev'[u] = dev[u]
    BY <2>1 DEF TypeOK
  <2> QED BY <1>9, <1>11, <2>2 DEF Push, Done
<1>12. ASSUME NEW p \in Op, NEW o \in Obj, NEW applied \in BOOLEAN, PushFails(p, o, applied)
       PROVE  Pushing'
  <2>1. run' = [run EXCEPT ![p] = [run[p] EXCEPT !.failed = TRUE]] /\ run[p] \in Locals
    BY <1>12 DEF PushFails, TypeOK
  <2>2. /\ run'[p].conf = run[p].conf /\ run'[p].exec = run[p].exec /\ run'[p].failed = TRUE
        /\ run'[p].blind = run[p].blind
    BY <2>1, ChangedLocals DEF TypeOK
  <2>3. \A u \in Obj \ {o} : dev'[u] = dev[u]
    BY <1>12 DEF PushFails, TypeOK
  <2>4. run'[p].failed
    BY <2>2
  <2> QED BY <1>9, <1>12, <2>2, <2>3, <2>4 DEF PushFails, Done
<1>13. ASSUME NEW p \in Op, Pushed(p) PROVE Pushing'
  BY <1>13, Moved DEF Pushed, Pushing, Behind
<1>14. ASSUME NEW o \in Obj, NEW what \in {"absent", "foreign"}, Meddle(o, what) PROVE Pushing'
  <2>1. (\A u \in Obj \ {o} : dev'[u] = dev[u]) /\ late' = late \cup {o}
    BY <1>14 DEF Meddle, TypeOK
  <2>2. \A p \in Op : pc[p] # "idle" => Content[run[p].conf] \subseteq Obj
    BY ConstantsAreSets DEF Started
  <2> QED BY <1>14, <2>1, <2>2 DEF Meddle, Pushing, Behind
<1>15. CASE \/ \E v \in Version : Transform(v)
            \/ LockGoesStale \/ ChainReads \/ ChainWrites \/ Tamper \/ UNCHANGED vars
  BY <1>4, <1>15 DEF Transform, LockGoesStale, ChainReads, ChainWrites, Tamper, vars
<1> QED
  BY <1>5, <1>6, <1>7, <1>8, <1>10, <1>11, <1>12, <1>13, <1>14, <1>15 DEF Next, Command, Others

\* "done" is said when all of a configuration has been pushed, and nobody pushes
\* while it is said.
LEMMA FinishedStep == DeployInv /\ [Next]_vars => Finished'
<1> SUFFICES ASSUME DeployInv, [Next]_vars PROVE Finished'
  OBVIOUS
<1>0. TypeOK /\ Holding /\ Started /\ Pushing /\ Finished
  BY DEF DeployInv
<1> USE <1>0 DEF files, logs, bounds
<1>1. ASSUME UNCHANGED <<ledger, dev, late>> PROVE Finished'
  BY <1>1 DEF Finished, CleanDoneIsDeployed
<1>2. ASSUME ledger'.status # "done" PROVE Finished'
  BY <1>2 DEF Finished, CleanDoneIsDeployed
<1>3. ASSUME NEW p \in Op, \/ \E exec \in BOOLEAN : Start(p, exec)
                           \/ GateRefuses(p) \/ LoadRecords(p) \/ SaveRecord(p)
                           \/ LockConflict(p) \/ TakeLock(p) \/ LoginFails(p) \/ Pushed(p)
                           \/ Kill(p)
                           \/ \E o \in Obj : Rehearse(p, o)
      PROVE  Finished'
  BY <1>1, <1>3 DEF Start, GateRefuses, LoadRecords, SaveRecord, LockConflict, Refused,
                    TakeLock, Enter, LoginFails, Pushed, Kill, Rehearse
<1>4. ASSUME NEW p \in Op, Begin(p) \/ ChecksFail(p) PROVE Finished'
  BY <1>2, <1>4 DEF Begin, ChecksFail, Said
<1>5. ASSUME NEW p \in Op, \/ \E blind \in BOOLEAN : ChecksPass(p, blind)
                           \/ \E o \in Obj : Push(p, o)
                           \/ \E o \in Obj, applied \in BOOLEAN : PushFails(p, o, applied)
      PROVE  Finished'
  <2>1. pc[p] \in {"check", "push"} /\ UNCHANGED ledger
    BY <1>5 DEF ChecksPass, Push, PushFails, Go
  <2> QED BY <1>2, <2>1 DEF Holding, Inside
<1>6. ASSUME NEW p \in Op, Finish(p) PROVE Finished'
  <2>1. pc[p] = "finish" /\ ledger' = Said("done", run[p]) /\ UNCHANGED <<dev, late>>
    BY <1>6 DEF Finish
  <2>2. /\ ledger'.conf = run[p].conf /\ ledger'.exec = run[p].exec
        /\ ledger'.failed = run[p].failed /\ run[p].conf \in Version
    BY <2>1 DEF Said, Started
  <2>3. Behind(p) = Content[run[p].conf]
    BY <2>1 DEF Behind, Pushing
  <2>4. run[p].exec /\ ~run[p].failed =>
            \A o \in Content[run[p].conf] : dev[o] = run[p].conf \/ o \in late
    BY <2>1, <2>3 DEF Pushing
  <2> QED BY <2>1, <2>2, <2>4 DEF Finished, CleanDoneIsDeployed
<1>7. ASSUME NEW o \in Obj, NEW what \in {"absent", "foreign"}, Meddle(o, what)
      PROVE  Finished'
  <2>1. (\A u \in Obj \ {o} : dev'[u] = dev[u]) /\ late' = late \cup {o} /\ UNCHANGED ledger
    BY <1>7 DEF Meddle, TypeOK
  <2>2. ledger.status = "done" => Content[ledger.conf] \subseteq Obj
    BY ConstantsAreSets DEF Finished
  <2> QED BY <2>1, <2>2 DEF Finished, CleanDoneIsDeployed
<1>8. CASE \/ \E v \in Version : Transform(v)
           \/ LockGoesStale \/ ChainReads \/ ChainWrites \/ Tamper \/ UNCHANGED vars
  BY <1>1, <1>8 DEF Transform, LockGoesStale, ChainReads, ChainWrites, Tamper, vars
<1> QED BY <1>3, <1>4, <1>5, <1>6, <1>7, <1>8 DEF Next, Command, Leave, Ends, Others
-----------------------------------------------------------------------------
\* A log just chained is whole, and it verifies if no line was chained before.
LEMMA ChainIsWhole ==
    ASSUME NEW log \in Seq(Line)
    PROVE  /\ Whole(Chain(log)) /\ Traced(Chain(log), Chain(log))
           /\ New(log) => Once(Chain(log))
<1>1. \A i \in DOMAIN log : log[i].hash \in Seq(Event) /\ log[i].body \in Event
  <2>1. \A i \in DOMAIN log : log[i] \in Line
    OBVIOUS
  <2> QED BY <2>1 DEF Line, Hash
<1>2. ASSUME NEW i \in DOMAIN log
      PROVE  /\ Chain(log)[i].hash # << >>
             /\ Chain(log)[i].hash[Len(Chain(log)[i].hash)] = Chain(log)[i].body
             /\ log[i].hash = << >> => Chain(log)[i].hash = <<Chain(log)[i].body>>
  <2> DEFINE h == log[i].hash
             b == log[i].body
  <2>1. h \in Seq(Event) /\ b \in Event
    BY <1>1
  <2>2. /\ Chain(log)[i].hash = Append(h, b) /\ Chain(log)[i].body = b
    BY ChainIsTyped
  <2> HIDE DEF h, b
  <2>3. Len(h) \in Nat /\ Len(Append(h, b)) = Len(h) + 1 /\ Append(h, b)[Len(h) + 1] = b
    BY <2>1
  <2>4. Append(h, b) # << >>
    <3> DEFINE longer == Append(h, b)
    <3>1. Len(longer) = Len(h) + 1
      BY <2>3
    <3> HIDE DEF longer
    <3>2. longer # << >>
      BY <2>3, <3>1
    <3> QED BY <3>2 DEF longer
  <2>5. h = << >> => Append(h, b) = <<b>>
    OBVIOUS
  <2> QED BY <2>2, <2>3, <2>4, <2>5 DEF h
<1> QED BY <1>2, ChainIsTyped DEF Whole, Traced, New, Once, Intact, Computed

\* What verify_chain says of a log whose lines have the hashes of its chaining.
LEMMA VerdictOfALog ==
    ASSUME NEW log \in Seq(Line), NEW h \in Chaining, LogIs(log, h)
    PROVE  /\ Verify(log) /\ log # << >> => Continues(h.was, log)
           /\ h.how = "once" => Verify(log)
<1>1. DOMAIN log = 1 .. Len(log) /\ Len(log) \in Nat /\ (log # << >> => 1 \in DOMAIN log)
  OBVIOUS
<1>2. \A i \in DOMAIN log \ {1} : i - 1 \in DOMAIN log
  BY <1>1
<1>3. ASSUME h.how = "once" PROVE Verify(log)
  <2>1. Whole(log) /\ Once(log)
    BY <1>3 DEF LogIs
  <2>2. \A i \in DOMAIN log \ {1} : Link(log[i - 1]) = log[i - 1].hash
    BY <1>2, <2>1 DEF Whole, Link
  <2> QED BY <1>1, <2>1, <2>2 DEF Whole, Once, Verify
<1>4. CASE Verify(log) /\ log # << >>
  <2> DEFINE was == h.was
  <2>1. was \in Seq(Line)
    BY DEF Chaining
  <2>2. /\ DOMAIN was = 1 .. Len(was) /\ Len(was) \in Nat
        /\ \A j \in DOMAIN was : was[j].hash # << >>
        /\ \A j \in DOMAIN was : was[j].prev = IF j = 1 THEN Genesis ELSE was[j - 1].hash
        /\ \A j \in DOMAIN was : was[j].hash[Len(was[j].hash)] = was[j].body
    BY <2>1 DEF LogIs, Whole
  <2>3. \A j \in DOMAIN was : j # 1 => j - 1 \in DOMAIN was
    BY <2>2
  <2>4. \A i \in DOMAIN log : \E j \in DOMAIN was :
            log[i].hash = was[j].hash /\ log[i].prev = was[j].prev
    <3>1. \A i \in DOMAIN log : log[i].hash # << >>
      BY <1>4 DEF Verify, Intact, Computed
    <3> QED BY <3>1 DEF LogIs, Traced
  <2> HIDE DEF was
  <2>5. \A b : << b >>[Len(<< b >>)] = b /\ << b >> # << >>
    OBVIOUS
  <2>6. /\ \A i \in DOMAIN log : log[i].hash = <<log[i].body>>
        /\ \A i \in DOMAIN log \ {1} : log[i].prev = Link(log[i - 1])
    BY <1>4 DEF Verify, Intact, Computed
  <2>7. ASSUME NEW i \in DOMAIN log, NEW j \in DOMAIN was, log[i].hash = was[j].hash
        PROVE  was[j].body = log[i].body
    <3>1. was[j].hash = <<log[i].body>>
      BY <1>4, <2>7 DEF Verify, Intact, Computed
    <3> QED BY <2>2, <2>5, <3>1
  <2>8. was # << >> /\ log[1].body = was[1].body
    <3>1. PICK j \in DOMAIN was : log[1].hash = was[j].hash /\ log[1].prev = was[j].prev
      BY <1>1, <1>4, <2>4
    <3>2. log[1].prev = << >>
      BY <1>1, <1>4 DEF Verify, Genesis
    <3>3. j = 1
      BY <2>2, <2>3, <3>1, <3>2
    <3> QED BY <1>1, <1>4, <2>2, <2>7, <3>1, <3>3
  <2>9. ASSUME NEW i \in DOMAIN log \ {1}
        PROVE  \E j \in DOMAIN was \ {1} :
                  log[i - 1].body = was[j - 1].body /\ log[i].body = was[j].body
    <3>1. PICK j \in DOMAIN was : log[i].hash = was[j].hash /\ log[i].prev = was[j].prev
      BY <2>4
    <3>2. log[i].prev = log[i - 1].hash /\ log[i - 1].hash # << >>
      <4>1. log[i - 1].hash = <<log[i - 1].body>> /\ log[i].prev = Link(log[i - 1])
        BY <1>2, <2>6
      <4>2. log[i - 1].hash # << >>
        BY <2>5, <4>1
      <4> QED BY <4>1, <4>2 DEF Link
    <3>3. j # 1 /\ was[j - 1].hash = log[i - 1].hash
      BY <2>2, <3>1, <3>2 DEF Genesis
    <3>4. was[j].body = log[i].body
      BY <2>7, <3>1
    <3>5. was[j - 1].body = log[i - 1].body
      BY <1>2, <2>3, <2>7, <3>3
    <3> QED BY <3>3, <3>4, <3>5
  <2>10. Continues(was, log)
    BY <2>8, <2>9 DEF Continues
  <2> QED BY <1>3, <2>10 DEF was
<1> QED BY <1>4, <1>3

\* An event is written behind the others.
LEMMA Emitted ==
    ASSUME TypeOK, Logged, NEW b \in Event, Emit(b) PROVE Logged'
<1> DEFINE log == Append(bus, Fresh(b))
<1>1. bus \in Seq(Line) /\ Fresh(b) \in Line /\ Fresh(b).hash = << >>
  BY FreshIsTyped DEF TypeOK
<1>2. \A i \in DOMAIN log : log[i] = Fresh(b) \/ (i \in DOMAIN bus /\ log[i] = bus[i])
  BY <1>1
<1> HIDE DEF log
<1>3. /\ bus' = log /\ UNCHANGED <<flat, chainer>>
      /\ chained'["flat"] = chained["flat"]
      /\ chained'["bus"].was = chained["bus"].was
      /\ chained'["bus"].how = IF chained["bus"].how = "once" THEN "stale"
                              ELSE chained["bus"].how
  BY TouchedIsTyped DEF Emit, log
<1>4. New(bus) => New(log)
  BY <1>1, <1>2 DEF New
<1>5. Traced(bus, chained["bus"].was) => Traced(log, chained["bus"].was)
  BY <1>1, <1>2 DEF Traced
<1> QED BY <1>3, <1>4, <1>5 DEF Logged, LogIs

\* A log is chained, from what is on file or from a copy of it.
LEMMA LogChained ==
    ASSUME TypeOK, NEW f \in {"bus", "flat"}, NEW log \in Seq(Line),
           Chained(f, Chain(log)), chained[f].how = "never" => New(log)
    PROVE  LogIs(Chain(log), chained'[f])
<1>1. chained'[f].was = Chain(log)
      /\ chained'[f].how = IF chained[f].how = "never" THEN "once" ELSE "stale"
  BY ChainIsTyped, ChainedIsTyped
<1> QED BY <1>1, ChainIsWhole DEF LogIs

\* A log is tampered with: whatever is done to its bodies, its hashes stay.
LEMMA LogTampered ==
    ASSUME TypeOK, NEW f \in {"bus", "flat"}, NEW log \in Seq(Line), NEW t \in Tampered(log),
           Touched(f), LogIs(log, chained[f])
    PROVE  LogIs(t, chained'[f])
<1>1. \A i \in DOMAIN t : \E j \in DOMAIN log :
          t[i].hash = log[j].hash /\ t[i].prev = log[j].prev
  BY TamperedIsTyped
<1>2. New(log) => New(t)
  BY <1>1 DEF New
<1>3. Traced(log, chained[f].was) => Traced(t, chained[f].was)
  BY <1>1 DEF Traced
<1>4. /\ chained'[f].was = chained[f].was
      /\ chained'[f].how = IF chained[f].how = "once" THEN "stale" ELSE chained[f].how
  BY TouchedIsTyped
<1> QED BY <1>2, <1>3, <1>4 DEF LogIs

\* The lines of every log have the hashes of its last chaining, or none.
LEMMA LoggedStep == TypeOK /\ Started /\ Logged /\ Unlocked => Logged'
<1> SUFFICES ASSUME TypeOK, Started, Logged, Unlocked PROVE Logged'
  OBVIOUS
<1> USE DEF files, logs, bounds
<1>0. bus \in Seq(Line) /\ flat \in Seq(Line)
  BY DEF TypeOK
<1>1. ASSUME UNCHANGED logs PROVE Logged'
  BY <1>1 DEF Logged, LogIs
<1>2. ASSUME NEW p \in Op, Begin(p) \/ Pushed(p) PROVE Logged'
  <2>1. run[p].id \in Run
    BY <1>2 DEF Begin, Pushed, Go, Started
  <2>2. <<run[p].id, "start">> \in Event /\ <<run[p].id, "end">> \in Event
    BY <2>1 DEF Event
  <2> QED BY <1>2, <2>2, Emitted DEF Begin, Pushed
<1>3. ASSUME NEW p \in Op, Finish(p) PROVE Logged'
  <2>1. flat' = Chain(flat) /\ Chained("flat", Chain(flat)) /\ UNCHANGED <<bus, chainer>>
    BY <1>3 DEF Finish
  <2>2. LogIs(flat', chained'["flat"])
    BY <1>0, <2>1, LogChained DEF Logged, LogIs
  <2>3. chained'["bus"] = chained["bus"]
    BY <1>0, <2>1, ChainIsTyped, ChainedIsTyped
  <2> QED BY <2>1, <2>2, <2>3 DEF Logged, LogIs
<1>4. CASE ChainReads
  <2>1. chainer' = bus /\ UNCHANGED <<bus, flat, chained>>
    BY <1>4 DEF ChainReads
  <2> QED BY <2>1 DEF Logged, LogIs
<1>5. CASE ChainWrites
  <2>1. /\ chainer # None /\ chainer' = None /\ UNCHANGED flat
        /\ bus' = Chain(chainer) /\ Chained("bus", Chain(chainer))
    BY <1>5 DEF ChainWrites
  <2>2. chainer \in Seq(Line)
    BY <2>1 DEF TypeOK
  <2>3. LogIs(bus', chained'["bus"])
    BY <2>1, <2>2, LogChained DEF Logged
  <2>4. chained'["flat"] = chained["flat"]
    BY <2>1, <2>2, ChainIsTyped, ChainedIsTyped
  <2> QED BY <2>1, <2>3, <2>4 DEF Logged, LogIs
<1>6. CASE Tamper
  <2>1. chainer' = None
    BY <1>6 DEF Tamper
  <2>2. CASE bus' \in Tampered(bus) /\ UNCHANGED flat /\ Touched("bus")
    <3>1. LogIs(bus', chained'["bus"])
      BY <1>0, <2>2, LogTampered DEF Logged
    <3>2. chained'["flat"] = chained["flat"]
      BY <2>2, TouchedIsTyped
    <3> QED BY <2>1, <2>2, <3>1, <3>2 DEF Logged, LogIs
  <2>3. CASE flat' \in Tampered(flat) /\ UNCHANGED bus /\ Touched("flat")
    <3>1. LogIs(flat', chained'["flat"])
      BY <1>0, <2>3, LogTampered DEF Logged
    <3>2. chained'["bus"] = chained["bus"]
      BY <2>3, TouchedIsTyped
    <3> QED BY <2>1, <2>3, <3>1, <3>2 DEF Logged, LogIs
  <2> QED BY <1>6, <2>2, <2>3 DEF Tamper
<1>7. ASSUME NEW p \in Op,
             \/ \E exec \in BOOLEAN : Start(p, exec)
             \/ GateRefuses(p) \/ LoadRecords(p) \/ SaveRecord(p) \/ Refused(p)
             \/ Enter(p) \/ LoginFails(p) \/ ChecksFail(p) \/ Kill(p)
             \/ \E blind \in BOOLEAN : ChecksPass(p, blind)
             \/ \E o \in Obj : Rehearse(p, o) \/ Push(p, o)
             \/ \E o \in Obj, applied \in BOOLEAN : PushFails(p, o, applied)
      PROVE  Logged'
  BY <1>1, <1>7 DEF Start, GateRefuses, LoadRecords, SaveRecord, Refused, Enter, LoginFails,
                    ChecksFail, Kill, ChecksPass, Rehearse, Push, PushFails
<1>8. CASE \/ \E v \in Version : Transform(v)
           \/ \E o \in Obj, what \in {"absent", "foreign"} : Meddle(o, what)
           \/ UNCHANGED logs
  BY <1>1, <1>8 DEF Transform, Meddle
<1> QED BY <1>2, <1>3, <1>4, <1>5, <1>7, <1>8, <1>6 DEF Unlocked, Command, Ends, Others
-----------------------------------------------------------------------------
\* A step is one that may do anything to the lock; what it does keeps its type.
LEMMA NextIsUnlocked == TypeOK /\ [Next]_vars => Unlocked /\ lock' \in Op \cup {None}
<1> SUFFICES ASSUME TypeOK, [Next]_vars PROVE Unlocked /\ lock' \in Op \cup {None}
  OBVIOUS
<1>1. Unlocked
  BY DEF Unlocked, Next, LockConflict, TakeLock, Leave, LockGoesStale, vars, files, logs, bounds
<1>2. lock' \in {lock, None} \cup Op
  BY DEF Next, Command, Others, Start, GateRefuses, LoadRecords, SaveRecord, LockConflict,
         TakeLock, Begin, ChecksPass, Rehearse, Push, PushFails, Pushed, Leave, Kill,
         LockGoesStale, Transform, Meddle, ChainReads, ChainWrites, Tamper, vars
<1> QED BY <1>1, <1>2 DEF TypeOK

\* Every step keeps the invariant.
LEMMA NextInv == DeployInv /\ [Next]_vars => DeployInv'
BY NextIsUnlocked, TypeStep, HoldingStep, StartedStep, RecordedStep, PushingStep, FinishedStep,
   LoggedStep DEF DeployInv

\* The invariant holds throughout.
LEMMA DeployInvHolds == Spec => []DeployInv
BY InitInv, NextInv, PTL DEF Spec

\* TypeOK: device, ledger, logs and processes keep their types.
THEOREM TypeCorrect == Spec => []TypeOK
<1>1. DeployInv => TypeOK
  BY DEF DeployInv
<1> QED BY <1>1, DeployInvHolds, PTL

\* What needs another object comes after it in the order, so it is pushed after it.
LEMMA OrderOfPushes == DeployInv => NothingDangles
<1> SUFFICES ASSUME DeployInv, NEW p \in Op, pc[p] = "push", run[p].exec, ~run[p].failed,
                    NEW o \in Content[run[p].conf] \ left[p],
                    NEW n \in (Needs[o] \cap Content[run[p].conf]) \ late
             PROVE  dev[n] = run[p].conf
  BY DEF NothingDangles
<1>1. run[p].conf \in Version /\ o \in Obj
  BY ConstantsAreSets DEF DeployInv, Started
<1>2. Section[n] < Section[o] /\ Section[n] \in Nat /\ Section[o] \in Nat
  BY <1>1, NeedsComeEarlier, ObjectsHaveASection
<1>3. n \notin left[p]
  BY <1>2 DEF DeployInv, Pushing, Behind
<1> QED BY <1>3 DEF DeployInv, Pushing, Behind

\* NothingDangles: deploy_all (fortiadc_deployer.py) puts no object on the device
\* before those it needs, as long as no call of it fails and nobody interferes.
THEOREM PushesAreInOrder == Spec => []NothingDangles
BY OrderOfPushes, DeployInvHolds, PTL

\* CleanDoneIsDeployed: "done, mode=execute, failed=0" in the ledger
\* (migrate.py cmd_deploy) means that the device has the configuration.
THEOREM DoneMeansDeployed == Spec => []CleanDoneIsDeployed
<1>1. DeployInv => CleanDoneIsDeployed
  BY DEF DeployInv, Finished
<1> QED BY <1>1, DeployInvHolds, PTL

\* WritersAreOnRecord: a run that changed the device has its governance record,
\* but for saves at the same time or cut short (governance.py save_record).
THEOREM WritersHaveRecords == Spec => []WritersAreOnRecord
<1>1. DeployInv => WritersAreOnRecord
  BY DEF DeployInv, Recorded, WritersAreOnRecord
<1> QED BY <1>1, DeployInvHolds, PTL

\* What is known of the logs decides what verify_chain says of them.
LEMMA VerdictOfTheLogs == TypeOK /\ Logged => TamperingShows
<1> SUFFICES ASSUME TypeOK, Logged PROVE TamperingShows
  OBVIOUS
<1>1. /\ flat \in Seq(Line) /\ bus \in Seq(Line)
      /\ chained["flat"] \in Chaining /\ chained["bus"] \in Chaining
  BY DEF TypeOK
<1>2. LogIs(flat, chained["flat"]) /\ LogIs(bus, chained["bus"])
  BY DEF Logged
<1> QED BY <1>1, <1>2, VerdictOfALog DEF TamperingShows

\* TamperingShows: a log that verify_chain (audit_export.py) passes says what it
\* said when it was chained, but for lines missing at the end, however long it is
\* and however often it was edited; and one chained and left alone passes.
THEOREM VerdictTellsOfTampering == Spec => []TamperingShows
<1>1. DeployInv => TamperingShows
  BY VerdictOfTheLogs DEF DeployInv
<1> QED BY <1>1, DeployInvHolds, PTL

\* OnlyExecuteWrites: no step of a dry run, of a run without the lock or of a
\* record keeper changes the device.
THEOREM DryRunsWriteNothing == Spec => OnlyExecuteWrites
<1>1. DeployInv /\ [Next]_vars /\ dev' # dev =>
          \/ \E o \in Obj, what \in {"absent", "foreign"} : Meddle(o, what)
          \/ \E p \in Op : pc[p] = "push" /\ run[p].exec /\ lock = p
  <2> SUFFICES ASSUME DeployInv, Next, dev' # dev,
                      ~ \E o \in Obj, what \in {"absent", "foreign"} : Meddle(o, what)
               PROVE  \E p \in Op : pc[p] = "push" /\ run[p].exec /\ lock = p
    BY DEF vars
  <2>1. PICK p \in Op : \/ \E o \in Obj : Push(p, o)
                        \/ \E o \in Obj, applied \in BOOLEAN : PushFails(p, o, applied)
    BY DEF Next, Command, Others, Start, GateRefuses, LoadRecords, SaveRecord, LockConflict,
           Refused, TakeLock, Enter, Begin, ChecksPass, Rehearse, Pushed, Leave, Ends,
           LoginFails, ChecksFail, Finish, Kill, LockGoesStale, Transform, ChainReads,
           ChainWrites, Tamper
  <2>2. pc[p] = "push" /\ run[p].exec
    BY <2>1 DEF Push, PushFails
  <2> QED BY <2>2 DEF DeployInv, Holding, Inside
<1> QED BY <1>1, DeployInvHolds, PTL DEF Spec, OnlyExecuteWrites

\* A step that overwrites a virtual server was blind, or the server came late.
LEMMA SurvivingStep ==
    DeployInv /\ [Next]_vars =>
      \A o \in Servers \cap Home : dev[o] # "absent" /\ dev'[o] # dev[o] =>
        \/ \E what \in {"absent", "foreign"} : Meddle(o, what)
        \/ \E p \in Op : lock = p /\ (run[p].blind \/ o \in late)
<1> SUFFICES ASSUME DeployInv, Next, NEW o \in Servers \cap Home,
                    dev[o] # "absent", dev'[o] # dev[o]
             PROVE  \/ \E what \in {"absent", "foreign"} : Meddle(o, what)
                    \/ \E p \in Op : lock = p /\ (run[p].blind \/ o \in late)
  BY DEF vars
<1>0. dev \in [Obj -> {"absent", "foreign"} \cup Version] /\ o \in Obj
  BY DEF DeployInv, TypeOK, Servers
<1>1. CASE \E u \in Obj, what \in {"absent", "foreign"} : Meddle(u, what)
  <2>1. PICK u \in Obj, what \in {"absent", "foreign"} : Meddle(u, what)
    BY <1>1
  <2>2. u = o
    BY <1>0, <2>1 DEF Meddle
  <2> QED BY <2>1, <2>2
<1>2. CASE ~ \E u \in Obj, what \in {"absent", "foreign"} : Meddle(u, what)
  <2>1. PICK p \in Op : \E u \in Obj : \/ Push(p, u)
                                       \/ \E applied \in BOOLEAN : PushFails(p, u, applied)
    BY <1>2 DEF Next, Command, Others, Start, GateRefuses, LoadRecords, SaveRecord,
           LockConflict, Refused, TakeLock, Enter, Begin, ChecksPass, Rehearse, Pushed,
           Leave, Ends, LoginFails, ChecksFail, Finish, Kill, LockGoesStale, Transform,
           ChainReads, ChainWrites, Tamper
  <2>2. PICK u \in Obj : Push(p, u) \/ \E applied \in BOOLEAN : PushFails(p, u, applied)
    BY <2>1
  <2>3. u \in left[p] /\ pc[p] = "push" /\ run[p].exec
    BY <2>2 DEF Push, PushFails, NextUp
  <2>4. u = o
    BY <1>0, <2>2 DEF Push, PushFails
  <2>5. lock = p
    BY <2>3 DEF DeployInv, Holding, Inside
  <2>6. ~run[p].blind => o \in late
    BY <2>3, <2>4 DEF DeployInv, Pushing
  <2> QED BY <2>5, <2>6
<1> QED BY <1>1, <1>2

\* ExistingServersSurvive: the comparison of names (pre_migration.py) protects the
\* virtual servers it has seen, in the client's VDOM and when it could list them.
THEOREM SeenServersSurvive == Spec => ExistingServersSurvive
BY SurvivingStep, DeployInvHolds, PTL DEF Spec, ExistingServersSurvive
=============================================================================
