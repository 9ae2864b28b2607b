---------------------------- MODULE RolloutProofs ----------------------------
(***************************************************************************)
(* The steps of a roll-out succeed in their order, whatever number of      *)
(* wizards share one file, and the verdict of ops-check is that of the     *)
(* reading at hand.                                                        *)
(*                                                                         *)
(* WorkIsInOrder speaks of what has succeeded, and a wizard of what its    *)
(* copy of the file says: the inductive invariant is that no copy says     *)
(* more than has succeeded, and that whatever step a wizard is at, the     *)
(* earlier ones have.  RecordIsEarned needs more: that a wizard which is   *)
(* alone holds the file, so that adding to its copy adds to the file.      *)
(***************************************************************************)
EXTENDS Rollout, TLAPS

\* A wizard that leads through the steps, and how many it has behind it.
Leading == {"save", "deployed", "days", "script", "mark", "load", "step"}
Behind(o) == IF pc[o] \in {"save", "deployed", "script", "load"} THEN at[o] ELSE at[o] - 1
Passed(o) == {Steps[i] : i \in 1 .. Behind(o)}

Earned ==
    \A e \in Env : /\ file.steps[e] \subseteq ran[e]
                   /\ \A o \in Operator : copy[o].steps[e] \subseteq ran[e]
                   /\ "dns-cutover" \notin ran[e]

Following ==
    \A o \in Operator :
        /\ pc[o] \in {"off", "setup"} => at[o] = 0 /\ done[o] = {}
        /\ pc[o] \in {"days", "mark"} => at[o] = 6
        /\ pc[o] = "step" => at[o] \in 1 .. 7
        /\ pc[o] \in Leading => /\ env[o] \in Env
                                /\ done[o] \subseteq ran[env[o]]
                                /\ Passed(o) \subseteq ran[env[o]]

\* What holds until two wizards are open at a time.
OneByOne == \A o, p \in Operator : pc[o] # "off" /\ pc[p] # "off" => o = p
InOrder ==
    \A e \in Env : /\ FirstSteps(file.steps[e])
                   /\ \A o \in Operator : FirstSteps(copy[o].steps[e])
HoldsTheFile ==
    \A o \in Operator :
        /\ pc[o] \in {"setup", "script", "mark", "load", "step"} => file = copy[o]
        /\ pc[o] \in Leading => /\ done[o] \subseteq copy[o].steps[env[o]]
                                /\ Passed(o) \subseteq copy[o].steps[env[o]]

WizardInv ==
    /\ WizardTypeOK /\ WorkIsInOrder /\ Earned /\ Following
    /\ ~shared => OneByOne /\ InOrder /\ HoldsTheFile
-----------------------------------------------------------------------------
\* The seven steps have seven names.
LEMMA StepsDiffer ==
    /\ \A i \in 1 .. 7 : Steps[i] \in Step
    /\ \A i, j \in 1 .. 7 : Steps[i] = Steps[j] => i = j
<1>1. \A i \in 1 .. 7 : Steps[i] \in Step
  BY DEF Step
<1>2. \A i, j \in 1 .. 7 : Steps[i] = Steps[j] => i = j
  BY DEF Steps
<1> QED BY <1>1, <1>2

\* An empty file claims nothing.
LEMMA BlankClaimsNothing ==
    /\ Blank \in Record
    /\ \A e \in Env : Blank.steps[e] = {} /\ FirstSteps(Blank.steps[e])
BY WizardBounds DEF Blank, Record, FirstSteps

\* As long as the last step is not in a list, there is a next one that is not.
LEMMA SomeStepIsNext ==
    ASSUME NEW a \in 0 .. 6, NEW d, Steps[7] \notin d
    PROVE  \E i \in a + 1 .. 7 : /\ Steps[i] \notin d
                                 /\ \A j \in a + 1 .. i - 1 : Steps[j] \in d
<1> DEFINE From(b) == \E i \in b .. 7 : /\ Steps[i] \notin d
                                        /\ \A j \in b .. i - 1 : Steps[j] \in d
<1>1. From(7)
  OBVIOUS
<1>2. ASSUME NEW b \in 1 .. 6, From(b + 1) PROVE From(b)
  <2>1. CASE Steps[b] \notin d
    BY <2>1
  <2>2. CASE Steps[b] \in d
    <3>1. PICK i \in b + 1 .. 7 : /\ Steps[i] \notin d
                                  /\ \A j \in b + 1 .. i - 1 : Steps[j] \in d
      BY <1>2
    <3>2. i \in b .. 7 /\ \A j \in b .. i - 1 : j = b \/ j \in b + 1 .. i - 1
      OBVIOUS
    <3> QED BY <2>2, <3>1, <3>2
  <2> QED BY <2>1, <2>2
<1> HIDE DEF From
<1>3. From(6) /\ From(5)
  BY <1>1, <1>2
<1>4. From(4) /\ From(3)
  BY <1>2, <1>3
<1>5. From(2) /\ From(1)
  BY <1>2, <1>4
<1>6. a + 1 \in 1 .. 7
  OBVIOUS
<1>7. From(a + 1)
  BY <1>1, <1>3, <1>4, <1>5, <1>6
<1> QED BY <1>7 DEF From

\* A list in order stays so with a step whose earlier ones are in it.
LEMMA OneStepMore ==
    ASSUME NEW S, FirstSteps(S), NEW n \in 1 .. 7, {Steps[i] : i \in 1 .. n - 1} \subseteq S
    PROVE  FirstSteps(S \cup {Steps[n]})
<1> SUFFICES ASSUME NEW i \in 2 .. 7, Steps[i] \in S \cup {Steps[n]}
             PROVE  Steps[i - 1] \in S \cup {Steps[n]}
  BY DEF FirstSteps
<1>1. CASE Steps[i] \in S
  BY <1>1 DEF FirstSteps
<1>2. CASE Steps[i] = Steps[n]
  <2>1. i = n
    BY <1>2, StepsDiffer
  <2>2. i - 1 \in 1 .. n - 1
    BY <2>1
  <2> QED BY <2>2
<1> QED BY <1>1, <1>2
-----------------------------------------------------------------------------
\* Nobody has done anything yet.
LEMMA WizardInit_Inv == WizardInit => WizardInv
<1> SUFFICES ASSUME WizardInit PROVE WizardInv
  OBVIOUS
<1> USE BlankClaimsNothing DEF WizardInit
<1>1. WizardTypeOK
  <2>1. file \in Record /\ copy \in [Operator -> Record]
    OBVIOUS
  <2>2. 0 \in 0 .. MaxSessions /\ 0 \in 0 .. MaxRuns /\ 0 \in 0 .. MaxDeletes
    BY WizardBounds
  <2>3. /\ pc \in [Operator -> Place] /\ env \in [Operator -> Env \cup {NoEnv}]
        /\ done \in [Operator -> SUBSET Step] /\ at \in [Operator -> 0 .. 7]
        /\ disk \in [Env -> SUBSET Artefact] /\ ran \in [Env -> SUBSET Step]
    BY DEF Place
  <2>4. shared \in BOOLEAN
    OBVIOUS
  <2> QED BY <2>1, <2>2, <2>3, <2>4 DEF WizardTypeOK
<1>2. WorkIsInOrder
  BY DEF WorkIsInOrder, FirstSteps
<1>3. Earned
  BY DEF Earned
<1>4. Following
  BY DEF Following, Leading
<1>5. OneByOne /\ InOrder /\ HoldsTheFile
  BY DEF OneByOne, InOrder, HoldsTheFile, Leading
<1> QED BY <1>1, <1>2, <1>3, <1>4, <1>5 DEF WizardInv

\* A wizard that begins holds the file, and is alone or makes it shared.
LEMMA StartKeeps ==
    ASSUME WizardInv, NEW o \in Operator, Start(o) PROVE WizardInv'
<1> USE DEF WizardInv, Start, Goto
<1>1. WizardTypeOK'
  BY WizardBounds DEF WizardTypeOK, Place
<1>2. WorkIsInOrder'
  BY DEF WorkIsInOrder
<1>3. Earned'
  BY DEF Earned, WizardTypeOK
<1>4. Following'
  BY DEF Following, WizardTypeOK, Leading, Passed, Behind
<1>5. ASSUME ~shared' PROVE (OneByOne /\ InOrder /\ HoldsTheFile)'
  <2>1. ~shared /\ \A p \in Operator \ {o} : pc[p] = "off"
    BY <1>5
  <2>2. OneByOne'
    BY <2>1 DEF OneByOne, WizardTypeOK
  <2>3. InOrder'
    BY <2>1 DEF InOrder, WizardTypeOK
  <2>4. HoldsTheFile'
    BY <2>1 DEF HoldsTheFile, WizardTypeOK, Leading
  <2> QED BY <2>2, <2>3, <2>4
<1> QED BY <1>1, <1>2, <1>3, <1>4, <1>5

\* The choice of an environment empties the file.
LEMMA ChooseKeeps ==
    ASSUME WizardInv, NEW o \in Operator, NEW e \in Env, Choose(o, e) PROVE WizardInv'
<1> USE BlankClaimsNothing DEF WizardInv, Choose, Goto, Empties, files
<1>1. WizardTypeOK'
  BY DEF WizardTypeOK, Place
<1>2. WorkIsInOrder'
  BY DEF WorkIsInOrder
<1>3. Earned'
  BY DEF Earned
<1>4. Following'
  <2>1. at[o] = 0 /\ done[o] = {} /\ at'[o] = 0 /\ pc'[o] = "save"
    BY DEF Following, WizardTypeOK
  <2>2. Passed(o)' = {}
    BY <2>1 DEF Passed, Behind
  <2> QED BY <2>1, <2>2 DEF Following, WizardTypeOK, Leading, Passed, Behind
<1>5. ASSUME ~shared PROVE (OneByOne /\ InOrder /\ HoldsTheFile)'
  <2>1. \A p \in Operator \ {o} : pc[p] = "off"
    BY <1>5 DEF OneByOne
  <2>2. OneByOne'
    BY <2>1 DEF OneByOne, WizardTypeOK
  <2>3. InOrder'
    BY <1>5 DEF InOrder
  <2>4. at[o] = 0 /\ done[o] = {} /\ at'[o] = 0 /\ pc'[o] = "save"
    BY DEF Following, WizardTypeOK
  <2>5. Passed(o)' = {}
    BY <2>4 DEF Passed, Behind
  <2>6. HoldsTheFile'
    BY <2>1, <2>4, <2>5 DEF HoldsTheFile, WizardTypeOK, Leading
  <2> QED BY <2>2, <2>3, <2>6
<1> QED BY <1>1, <1>2, <1>3, <1>4, <1>5

\* A wizard that ends leaves the file as it is.
LEMMA EndsKeeps ==
    ASSUME WizardInv, NEW o \in Operator, Ends(o), UNCHANGED <<file, ran, runs, files>>
    PROVE  WizardInv'
<1> USE BlankClaimsNothing DEF WizardInv, Ends, files
<1>1. WizardTypeOK'
  BY DEF WizardTypeOK, Place
<1>2. WorkIsInOrder'
  BY DEF WorkIsInOrder
<1>3. Earned'
  BY DEF Earned, WizardTypeOK
<1>4. Following'
  BY DEF Following, WizardTypeOK, Leading, Passed, Behind
<1>5. ASSUME ~shared PROVE (OneByOne /\ InOrder /\ HoldsTheFile)'
  <2>1. OneByOne'
    BY <1>5 DEF OneByOne, WizardTypeOK
  <2>2. InOrder'
    BY <1>5 DEF InOrder, WizardTypeOK
  <2>3. HoldsTheFile'
    BY <1>5 DEF HoldsTheFile, WizardTypeOK, Leading, Passed, Behind
  <2> QED BY <2>1, <2>2, <2>3
<1> QED BY <1>1, <1>2, <1>3, <1>4, <1>5

\* The file as a wizard has it in mind is written.
LEMMA FillsKeeps ==
    ASSUME WizardInv, NEW o \in Operator, Fills(o) PROVE WizardInv'
<1> USE DEF WizardInv, Fills, Goto, files
<1>1. pc'[o] \in {"load", "script", "mark"} /\ file' = copy[o]
  BY DEF WizardTypeOK
<1>2. WizardTypeOK'
  BY <1>1 DEF WizardTypeOK, Place
<1>3. WorkIsInOrder'
  BY DEF WorkIsInOrder
<1>4. Earned'
  BY DEF Earned
<1>5. Passed(o)' = Passed(o)
  BY DEF Passed, Behind, WizardTypeOK
<1>6. \A p \in Operator \ {o} : pc'[p] = pc[p] /\ Passed(p)' = Passed(p)
  BY DEF Passed, Behind, WizardTypeOK
<1>7. Following'
  BY <1>1, <1>5, <1>6 DEF Following, WizardTypeOK, Leading
<1>8. ASSUME ~shared PROVE (OneByOne /\ InOrder /\ HoldsTheFile)'
  <2>1. \A p \in Operator \ {o} : pc[p] = "off"
    BY <1>8 DEF OneByOne
  <2>2. OneByOne'
    BY <2>1 DEF OneByOne, WizardTypeOK
  <2>3. InOrder'
    BY <1>8 DEF InOrder
  <2>4. HoldsTheFile'
    BY <1>1, <1>5, <1>6, <1>8, <2>1 DEF HoldsTheFile, Leading
  <2> QED BY <2>2, <2>3, <2>4
<1> QED BY <1>2, <1>3, <1>4, <1>7, <1>8

\* Loading the file, the wizard goes to the next step it does not find done.
LEMMA ReloadKeeps ==
    ASSUME WizardInv, NEW o \in Operator, Reload(o) PROVE WizardInv'
<1> USE DEF WizardInv, Goto, files
<1> DEFINE d == IF at[o] = 0 THEN file.steps[env[o]] ELSE done[o]
           n == at'[o]
<1>1. /\ pc[o] = "load" /\ env[o] \in Env /\ at[o] \in 0 .. 7
      /\ done[o] \subseteq ran[env[o]] /\ Passed(o) \subseteq ran[env[o]]
  BY DEF Reload, Following, Leading, WizardTypeOK
<1>2. d \subseteq ran[env[o]] /\ d \subseteq Step /\ Steps[7] \notin ran[env[o]]
  <2>1. file.steps[env[o]] \subseteq Step
    BY <1>1 DEF WizardTypeOK, Record
  <2>2. Steps[7] = "dns-cutover"
    BY DEF Steps
  <2> QED BY <1>1, <2>1, <2>2 DEF Earned, WizardTypeOK
<1>3. at[o] \in 0 .. 6
  <2>1. at[o] # 7
    BY <1>1, <1>2 DEF Passed, Behind
  <2> QED BY <1>1, <2>1
<1>4. done' = [done EXCEPT ![o] = d]
  BY <1>1 DEF Reload, WizardTypeOK
<1>5. n \in at[o] + 1 .. 7 /\ \A j \in at[o] + 1 .. n - 1 : Steps[j] \in d
  <2>1. d = done'[o]
    BY <1>4 DEF WizardTypeOK
  <2>2. \E i \in at[o] + 1 .. 7 : /\ Steps[i] \notin d
                                  /\ \A j \in at[o] + 1 .. i - 1 : Steps[j] \in d
    BY <1>2, <1>3, SomeStepIsNext
  <2>3. n = CHOOSE i \in at[o] + 1 .. 7 : /\ Steps[i] \notin d
                                         /\ \A j \in at[o] + 1 .. i - 1 : Steps[j] \in d
    BY <2>1 DEF Reload, WizardTypeOK
  <2> QED BY <2>2, <2>3
<1> HIDE DEF d, n
<1>6. /\ copy' = [copy EXCEPT ![o] = file] /\ at' = [at EXCEPT ![o] = n]
      /\ pc' = [pc EXCEPT ![o] = "step"]
      /\ UNCHANGED <<file, env, ran, runs, disk, sessions, deletes, shared>>
  BY DEF Reload, n, WizardTypeOK
<1>7. Passed(o)' \subseteq Passed(o) \cup d
  <2>1. Passed(o) = {Steps[i] : i \in 1 .. at[o]} /\ Passed(o)' = {Steps[i] : i \in 1 .. n - 1}
    BY <1>1, <1>6 DEF Passed, Behind, WizardTypeOK
  <2>2. \A i \in 1 .. n - 1 : i \in 1 .. at[o] \/ i \in at[o] + 1 .. n - 1
    BY <1>3, <1>5
  <2> QED BY <1>5, <2>1, <2>2
<1>8. \A p \in Operator \ {o} : pc'[p] = pc[p] /\ at'[p] = at[p] /\ Passed(p)' = Passed(p)
  BY <1>6 DEF Passed, Behind, WizardTypeOK
<1>9. n \in 1 .. 7
  BY <1>3, <1>5
<1>10. WizardTypeOK'
  BY <1>1, <1>2, <1>4, <1>6, <1>9 DEF WizardTypeOK, Place
<1>11. WorkIsInOrder'
  BY <1>6 DEF WorkIsInOrder
<1>12. Earned'
  BY <1>6 DEF Earned, WizardTypeOK
<1>13. Following'
  BY <1>1, <1>2, <1>4, <1>6, <1>7, <1>8, <1>9 DEF Following, WizardTypeOK, Leading
<1>14. ASSUME ~shared PROVE (OneByOne /\ InOrder /\ HoldsTheFile)'
  <2>1. \A p \in Operator \ {o} : pc[p] = "off"
    BY <1>1, <1>14 DEF OneByOne
  <2>2. OneByOne'
    BY <1>6, <2>1 DEF OneByOne, WizardTypeOK
  <2>3. InOrder'
    BY <1>6, <1>14 DEF InOrder, WizardTypeOK
  <2>4. file = copy[o] /\ done[o] \subseteq copy[o].steps[env[o]]
        /\ Passed(o) \subseteq copy[o].steps[env[o]]
    BY <1>1, <1>14 DEF HoldsTheFile, Leading
  <2>5. d \subseteq copy[o].steps[env[o]]
    BY <2>4 DEF d
  <2>6. HoldsTheFile'
    BY <1>4, <1>6, <1>7, <1>8, <2>1, <2>4, <2>5 DEF HoldsTheFile, Leading, WizardTypeOK
  <2> QED BY <2>2, <2>3, <2>6
<1> QED BY <1>6, <1>10, <1>11, <1>12, <1>13, <1>14

\* Marking a step in a copy changes that list and no other.
LEMMA MarkedCopy ==
    ASSUME WizardTypeOK, NEW o \in Operator, env[o] \in Env, NEW s \in Step,
           copy' = [copy EXCEPT ![o].steps[env[o]] = @ \cup {s}]
    PROVE  /\ copy' \in [Operator -> Record]
           /\ \A p \in Operator \ {o} : copy'[p] = copy[p]
           /\ \A e \in Env : copy'[o].steps[e] = IF e = env[o] THEN copy[o].steps[e] \cup {s}
                                                ELSE copy[o].steps[e]
<1>1. copy[o] \in Record /\ copy[o].steps \in [Env -> SUBSET Step]
  BY DEF WizardTypeOK, Record
<1> DEFINE S == [copy[o].steps EXCEPT ![env[o]] = @ \cup {s}]
<1>2. S \in [Env -> SUBSET Step]
  BY <1>1
<1>3. copy' = [copy EXCEPT ![o] = [copy[o] EXCEPT !.steps = S]]
  BY <1>1 DEF WizardTypeOK
<1>4. [copy[o] EXCEPT !.steps = S] \in Record /\ [copy[o] EXCEPT !.steps = S].steps = S
  BY <1>1, <1>2 DEF Record
<1> QED BY <1>1, <1>3, <1>4 DEF WizardTypeOK

\* A step succeeds and is marked: the one its wizard is at.
LEMMA MarksKeeps ==
    ASSUME WizardInv, NEW o \in Operator, NEW place \in {"save", "deployed"},
           pc[o] \in {"step", "mark"}, at[o] \in 1 .. 6,
           Marks(o, Steps[at[o]], place),
           disk' \in [Env -> SUBSET Artefact],
           UNCHANGED <<env, done, at, sessions, deletes, shared>>
    PROVE  WizardInv'
<1> USE DEF WizardInv, Empties, Goto
<1> DEFINE s == Steps[at[o]]
<1>1. /\ s \in Step /\ s # "dns-cutover"
  <2>1. Steps[7] = "dns-cutover"
    BY DEF Steps
  <2> QED BY <2>1, StepsDiffer
<1>2. /\ env[o] \in Env /\ done[o] \subseteq ran[env[o]] /\ Passed(o) \subseteq ran[env[o]]
  BY DEF Following, Leading
<1>3. Passed(o) = {Steps[i] : i \in 1 .. at[o] - 1} /\ Passed(o)' = Passed(o) \cup {s}
  <2>1. Behind(o) = at[o] - 1
    BY DEF Behind
  <2>2. Behind(o)' = at[o]
    BY DEF Behind, Marks, WizardTypeOK
  <2>3. \A i : i \in 1 .. at[o] <=> i \in 1 .. at[o] - 1 \/ i = at[o]
    OBVIOUS
  <2>4. Passed(o)' = {Steps[i] : i \in 1 .. at[o]}
    BY <2>2 DEF Passed
  <2>5. Passed(o) = {Steps[i] : i \in 1 .. at[o] - 1}
    BY <2>1 DEF Passed
  <2> QED BY <2>3, <2>4, <2>5
<1> HIDE DEF s
<1>4. /\ runs < MaxRuns /\ runs' = runs + 1 /\ file' = Blank
      /\ ran' = [ran EXCEPT ![env[o]] = @ \cup {s}]
      /\ copy' = [copy EXCEPT ![o].steps[env[o]] = @ \cup {s}]
      /\ pc' = [pc EXCEPT ![o] = place]
  BY DEF Marks, s
<1>5. /\ copy' \in [Operator -> Record]
      /\ \A p \in Operator \ {o} : copy'[p] = copy[p]
      /\ \A e \in Env : copy'[o].steps[e] = IF e = env[o] THEN copy[o].steps[e] \cup {s}
                                           ELSE copy[o].steps[e]
  BY <1>1, <1>2, <1>4, MarkedCopy
<1>6. \A e \in Env : ran'[e] = IF e = env[o] THEN ran[e] \cup {s} ELSE ran[e]
  BY <1>4 DEF WizardTypeOK
<1>7. \A p \in Operator \ {o} : pc'[p] = pc[p] /\ Passed(p)' = Passed(p)
  BY <1>4 DEF Passed, Behind, WizardTypeOK
<1>8. WizardTypeOK'
  <2>1. runs' \in 0 .. MaxRuns
    BY <1>4, WizardBounds DEF WizardTypeOK
  <2>2. ran' \in [Env -> SUBSET Step]
    BY <1>1, <1>4 DEF WizardTypeOK
  <2> QED BY <1>4, <1>5, <2>1, <2>2, BlankClaimsNothing DEF WizardTypeOK, Place
<1>9. WorkIsInOrder'
  <2>1. FirstSteps(ran[env[o]]) /\ {Steps[i] : i \in 1 .. at[o] - 1} \subseteq ran[env[o]]
    BY <1>2, <1>3 DEF WorkIsInOrder
  <2>2. FirstSteps(ran[env[o]] \cup {s})
    BY <2>1, OneStepMore, at[o] \in 1 .. 7 DEF s
  <2> QED BY <1>6, <2>2 DEF WorkIsInOrder
<1>10. Earned'
  <2>1. \A e \in Env : /\ file'.steps[e] \subseteq ran'[e] /\ copy'[o].steps[e] \subseteq ran'[e]
                       /\ "dns-cutover" \notin ran'[e]
    <3> SUFFICES ASSUME NEW e \in Env
                 PROVE  /\ file'.steps[e] \subseteq ran'[e] /\ copy'[o].steps[e] \subseteq ran'[e]
                        /\ "dns-cutover" \notin ran'[e]
      OBVIOUS
    <3>1. file'.steps[e] = {}
      BY <1>4, BlankClaimsNothing
    <3>2. copy[o].steps[e] \subseteq ran[e] /\ "dns-cutover" \notin ran[e]
      BY DEF Earned
    <3> QED BY <1>1, <1>5, <1>6, <3>1, <3>2
  <2>2. \A e \in Env, p \in Operator \ {o} : copy'[p].steps[e] \subseteq ran'[e]
    <3> SUFFICES ASSUME NEW e \in Env, NEW p \in Operator \ {o}
                 PROVE  copy'[p].steps[e] \subseteq ran'[e]
      OBVIOUS
    <3>1. copy[p].steps[e] \subseteq ran[e]
      BY DEF Earned
    <3>2. copy'[p] = copy[p] /\ ran[e] \subseteq ran'[e]
      BY <1>5, <1>6
    <3> QED BY <3>1, <3>2
  <2> QED BY <2>1, <2>2 DEF Earned
<1>11. Following'
  <2>1. \A p \in Operator : pc'[p] \in Leading =>
            env'[p] \in Env /\ done'[p] \subseteq ran'[env'[p]] /\ Passed(p)' \subseteq ran'[env'[p]]
    BY <1>2, <1>3, <1>4, <1>6, <1>7 DEF Following, WizardTypeOK, Leading
  <2> QED BY <1>4, <1>7, <2>1 DEF Following, WizardTypeOK
<1>12. ASSUME ~shared PROVE (OneByOne /\ InOrder /\ HoldsTheFile)'
  <2>1. \A p \in Operator \ {o} : pc[p] = "off"
    BY <1>12 DEF OneByOne
  <2>2. OneByOne'
    BY <1>4, <2>1 DEF OneByOne, WizardTypeOK
  <2>3. /\ done[o] \subseteq copy[o].steps[env[o]] /\ Passed(o) \subseteq copy[o].steps[env[o]]
        /\ FirstSteps(copy[o].steps[env[o]])
    BY <1>2, <1>12 DEF HoldsTheFile, Leading, InOrder
  <2>4. FirstSteps(copy[o].steps[env[o]] \cup {s})
    <3>1. {Steps[i] : i \in 1 .. at[o] - 1} \subseteq copy[o].steps[env[o]]
      BY <1>3, <2>3
    <3> QED BY <2>3, <3>1, OneStepMore, at[o] \in 1 .. 7 DEF s
  <2>5. InOrder'
    BY <1>4, <1>5, <1>12, <2>4, BlankClaimsNothing DEF InOrder
  <2>6. pc'[o] = place /\ env' = env /\ done' = done /\ \A p \in Operator \ {o} : pc'[p] = "off"
    BY <1>4, <2>1 DEF WizardTypeOK
  <2>7. HoldsTheFile'
    <3>1. /\ done'[o] \subseteq copy'[o].steps[env'[o]]
          /\ Passed(o)' \subseteq copy'[o].steps[env'[o]]
      BY <1>2, <1>3, <1>5, <2>3, <2>6
    <3> QED BY <2>6, <3>1 DEF HoldsTheFile, Leading
  <2> QED BY <2>2, <2>5, <2>7
<1> QED BY <1>8, <1>9, <1>10, <1>11, <1>12

\* The same for the steps that are commands.
LEMMA DoesKeeps ==
    ASSUME WizardInv, NEW o \in Operator, NEW n \in 1 .. 6, NEW needs,
           NEW makes \in SUBSET Artefact, NEW place \in {"save", "deployed"},
           Does(o, Steps[n], needs, makes, place)
    PROVE  WizardInv'
<1>1. pc[o] = "step" /\ Steps[at[o]] = Steps[n] /\ at[o] \in 1 .. 7 /\ env[o] \in Env
  BY DEF Does, AtStep, WizardInv, Following, Leading
<1>2. at[o] = n
  BY <1>1, StepsDiffer
<1>3. disk' \in [Env -> SUBSET Artefact]
  BY <1>1 DEF Does, WizardInv, WizardTypeOK
<1> QED BY <1>1, <1>2, <1>3, MarksKeeps DEF Does

\* The number of days is written down; it is no claim.
LEMMA DaysKeep ==
    ASSUME WizardInv, NEW o \in Operator, NEW n \in 0 .. DaysNeeded + 1, ParallelDays(o, n)
    PROVE  WizardInv'
<1> USE DEF WizardInv
<1>1. pc[o] = "step" /\ at[o] = 6 /\ env[o] \in Env
  <2>1. pc[o] = "step" /\ Steps[at[o]] = Steps[6] /\ at[o] \in 1 .. 7 /\ env[o] \in Env
    BY DEF ParallelDays, AtStep, Following, Leading, Steps
  <2> QED BY <2>1, StepsDiffer
<1> DEFINE k == IF n > DaysNeeded THEN DaysNeeded ELSE n
           D == [copy[o].days EXCEPT ![env[o]] = k]
           c == [copy[o] EXCEPT !.days = D]
<1>2. k \in 0 .. DaysNeeded
  BY WizardBounds
<1>3. copy[o] \in Record /\ copy[o].days \in [Env -> 0 .. DaysNeeded]
  BY DEF WizardTypeOK, Record
<1>4. copy' = [copy EXCEPT ![o] = c]
  BY <1>1, <1>3 DEF ParallelDays, WizardTypeOK
<1>5. c \in Record /\ c.steps = copy[o].steps
  <2>1. D \in [Env -> 0 .. DaysNeeded]
    BY <1>2, <1>3
  <2> HIDE DEF D
  <2> QED BY <1>3, <2>1 DEF Record
<1> HIDE DEF c
<1>6. /\ file' = Blank /\ pc' = [pc EXCEPT ![o] = "days"]
      /\ UNCHANGED <<env, done, at, ran, runs, files>>
  BY DEF ParallelDays, Empties, Goto
<1>7. \A p \in Operator : copy'[p].steps = copy[p].steps
  BY <1>4, <1>5 DEF WizardTypeOK
<1>8. Passed(o)' = Passed(o)
  BY <1>1, <1>6 DEF Passed, Behind, WizardTypeOK
<1>9. \A p \in Operator \ {o} : pc'[p] = pc[p] /\ Passed(p)' = Passed(p)
  BY <1>6 DEF Passed, Behind, WizardTypeOK
<1>10. WizardTypeOK'
  BY <1>4, <1>5, <1>6, BlankClaimsNothing DEF WizardTypeOK, Place, files
<1>11. WorkIsInOrder'
  BY <1>6 DEF WorkIsInOrder
<1>12. Earned'
  BY <1>6, <1>7, BlankClaimsNothing DEF Earned
<1>13. Following'
  BY <1>1, <1>6, <1>8, <1>9 DEF Following, WizardTypeOK, Leading
<1>14. ASSUME ~shared PROVE (OneByOne /\ InOrder /\ HoldsTheFile)'
  <2>1. \A p \in Operator \ {o} : pc[p] = "off"
    BY <1>1, <1>14 DEF OneByOne
  <2>2. OneByOne'
    BY <1>6, <2>1 DEF OneByOne, WizardTypeOK
  <2>3. InOrder'
    BY <1>6, <1>7, <1>14, BlankClaimsNothing DEF InOrder
  <2>4. HoldsTheFile'
    BY <1>1, <1>6, <1>7, <1>8, <1>14, <2>1 DEF HoldsTheFile, WizardTypeOK, Leading
  <2> QED BY <2>2, <2>3, <2>4
<1> QED BY <1>6, <1>10, <1>11, <1>12, <1>13, <1>14 DEF files

\* The files of the console's environments are not the wizards'.
LEMMA FilesKeep ==
    ASSUME WizardInv, disk' \in [Env -> SUBSET Artefact], deletes' \in 0 .. MaxDeletes,
           UNCHANGED <<file, pc, env, copy, done, at, sessions, runs, ran, shared>>
    PROVE  WizardInv'
<1> USE DEF WizardInv
<1>1. WizardTypeOK'
  BY DEF WizardTypeOK
<1>2. WorkIsInOrder' /\ Earned'
  BY DEF WorkIsInOrder, Earned
<1>3. \A p \in Operator : Passed(p)' = Passed(p)
  BY DEF Passed, Behind
<1>4. Following'
  BY <1>3 DEF Following
<1>5. ASSUME ~shared PROVE (OneByOne /\ InOrder /\ HoldsTheFile)'
  BY <1>3, <1>5 DEF OneByOne, InOrder, HoldsTheFile
<1> QED BY <1>1, <1>2, <1>4, <1>5

\* The rollback script changes nothing but the place of the wizard.
LEMMA RollbackKeeps ==
    ASSUME WizardInv, NEW o \in Operator, GenerateRollback(o) PROVE WizardInv'
<1> USE DEF WizardInv, GenerateRollback, Goto
<1>1. disk' \in [Env -> SUBSET Artefact]
  BY DEF WizardTypeOK, Artefact
<1>2. WizardTypeOK'
  BY <1>1 DEF WizardTypeOK, Place
<1>3. WorkIsInOrder' /\ Earned'
  BY DEF WorkIsInOrder, Earned
<1>4. \A p \in Operator : Passed(p)' = Passed(p)
  BY DEF Passed, Behind, WizardTypeOK
<1>5. Following'
  BY <1>4 DEF Following, WizardTypeOK, Leading
<1>6. ASSUME ~shared PROVE (OneByOne /\ InOrder /\ HoldsTheFile)'
  BY <1>4, <1>6 DEF OneByOne, InOrder, HoldsTheFile, WizardTypeOK, Leading
<1> QED BY <1>2, <1>3, <1>5, <1>6

\* Every step of the wizards, and of the console beside them.
LEMMA WizardStep == WizardInv /\ [WizardNext]_wizardVars => WizardInv'
<1> SUFFICES ASSUME WizardInv, [WizardNext]_wizardVars PROVE WizardInv'
  OBVIOUS
<1>1. ASSUME NEW o \in Operator, Fails(o) \/ Stop(o) PROVE WizardInv'
  BY <1>1, EndsKeeps DEF Fails, Stop
<1>2. ASSUME NEW o \in Operator,
             Discover(o) \/ Analyse(o) \/ Transform(o) \/ DryRun(o) \/ Deploy(o)
      PROVE  WizardInv'
  <2>1. /\ {"discovery"} \in SUBSET Artefact /\ {"config"} \in SUBSET Artefact
        /\ {} \in SUBSET Artefact
    BY DEF Artefact
  <2>2. /\ Steps[1] = "discover" /\ Steps[2] = "analyse" /\ Steps[3] = "transform"
        /\ Steps[4] = "dry-run" /\ Steps[5] = "deploy"
    BY DEF Steps
  <2>3. CASE Discover(o)
    BY <2>1, <2>2, <2>3, DoesKeeps, 1 \in 1 .. 6 DEF Discover
  <2>4. CASE Analyse(o)
    BY <2>1, <2>2, <2>4, DoesKeeps, 2 \in 1 .. 6 DEF Analyse
  <2>5. CASE Transform(o)
    BY <2>1, <2>2, <2>5, DoesKeeps, 3 \in 1 .. 6 DEF Transform
  <2>6. CASE DryRun(o)
    BY <2>1, <2>2, <2>6, DoesKeeps, 4 \in 1 .. 6 DEF DryRun
  <2>7. CASE Deploy(o)
    BY <2>1, <2>2, <2>7, DoesKeeps, 5 \in 1 .. 6 DEF Deploy
  <2> QED BY <1>2, <2>3, <2>4, <2>5, <2>6, <2>7
<1>3. ASSUME NEW o \in Operator, ParallelDone(o) PROVE WizardInv'
  <2>1. pc[o] = "mark" /\ at[o] = 6 /\ Steps[6] = "parallel-run"
    BY <1>3 DEF ParallelDone, WizardInv, Following, Steps
  <2>2. disk' \in [Env -> SUBSET Artefact] /\ 6 \in 1 .. 6
    BY <1>3 DEF ParallelDone, files, WizardInv, WizardTypeOK
  <2>3. Marks(o, Steps[at[o]], "save") /\ UNCHANGED <<env, done, at, sessions, deletes, shared>>
    BY <1>3, <2>1 DEF ParallelDone, files
  <2> QED BY <2>1, <2>2, <2>3, MarksKeeps
<1>4. ASSUME NEW e \in Env, DeleteEnvironment(e) PROVE WizardInv'
  <2>1. disk' \in [Env -> SUBSET Artefact] /\ deletes' \in 0 .. MaxDeletes
    BY <1>4, WizardBounds DEF DeleteEnvironment, WizardInv, WizardTypeOK
  <2> QED BY <1>4, <2>1, FilesKeep DEF DeleteEnvironment
<1>5. CASE UNCHANGED wizardVars
  <2>1. disk' \in [Env -> SUBSET Artefact] /\ deletes' \in 0 .. MaxDeletes
    BY <1>5 DEF wizardVars, WizardInv, WizardTypeOK
  <2> QED BY <1>5, <2>1, FilesKeep DEF wizardVars
<1>6. CASE WizardNext
  BY <1>1, <1>2, <1>3, <1>4, <1>6, StartKeeps, ChooseKeeps, FillsKeeps, ReloadKeeps,
     DaysKeep, RollbackKeeps DEF WizardNext, DnsCutover
<1> QED BY <1>5, <1>6
-----------------------------------------------------------------------------
\* A check that asks nobody to act saw the pool, or was told of no member of it.
LEMMA CheckKeeps ==
    ASSUME OpsTypeOK, NEW r \in Reading \cup {Gone}, NEW l \in Load,
           NEW named \in SUBSET Member, NEW found \in SUBSET Member, NEW answer,
           OpsCheck(r, l, named, found, answer)
    PROVE  (OpsTypeOK /\ AllClearIsSeen)'
<1> DEFINE prev == IF health = Gone THEN r ELSE health
           risk == IF r = Gone THEN "GREEN" ELSE HealthRisk(r, prev)
           act  == \/ risk # "GREEN" \/ CapacityRisk(l) # "GREEN"
                   \/ PoolDrifts(named, found)
<1>1. /\ report'.checked = TRUE /\ report'.signal = r /\ report'.risk = risk
      /\ report'.capacity = CapacityRisk(l)
      /\ report'.named = named /\ report'.found = found
      /\ report'.differs = ConfigDiffers(answer) /\ report'.action = act
      /\ health' = IF r = Gone THEN health ELSE r
  BY DEF OpsCheck
<1>2. risk \in Risk /\ CapacityRisk(l) \in Risk
  BY DEF Risk, CapacityRisk, HealthRisk
<1>3. act \in BOOLEAN /\ ConfigDiffers(answer) \in BOOLEAN
  BY DEF ConfigDiffers, PoolDrifts
<1>4. r # Gone /\ risk = "GREEN" => ~Below(r, 3)
  BY DEF HealthRisk
<1>5. ~act => risk = "GREEN" /\ named = found
  BY DEF PoolDrifts
<1> HIDE DEF act, risk
<1>6. OpsTypeOK'
  <2>1. health' \in Reading \cup {Gone}
    BY <1>1 DEF OpsTypeOK
  <2>2. {report'.checked, report'.differs, report'.action} \subseteq BOOLEAN
    BY <1>1, <1>3
  <2> QED BY <1>1, <1>2, <2>1, <2>2 DEF OpsTypeOK
<1>7. AllClearIsSeen'
  BY <1>1, <1>4, <1>5 DEF AllClearIsSeen, Below
<1> QED BY <1>6, <1>7

RolloutInv == WizardInv /\ OpsTypeOK /\ AllClearIsSeen

\* Nothing is checked before something is deployed.
LEMMA Init_RolloutInv == Init => RolloutInv
<1> SUFFICES ASSUME Init PROVE RolloutInv
  OBVIOUS
<1>1. WizardInv
  BY WizardInit_Inv DEF Init
<1>2. OpsTypeOK /\ AllClearIsSeen
  BY DEF Init, OpsInit, NoReport, OpsTypeOK, AllClearIsSeen, Risk
<1> QED BY <1>1, <1>2 DEF RolloutInv

\* A step of a wizard, or of ops-check, keeps both invariants.
LEMMA RolloutStep == RolloutInv /\ [Next]_vars => RolloutInv'
<1> SUFFICES ASSUME RolloutInv, [Next]_vars PROVE RolloutInv'
  OBVIOUS
<1> USE DEF RolloutInv
<1>1. ASSUME UNCHANGED opsVars PROVE (OpsTypeOK /\ AllClearIsSeen)'
  BY <1>1 DEF opsVars, OpsTypeOK, AllClearIsSeen
<1>2. CASE WizardNext /\ UNCHANGED opsVars
  BY <1>1, <1>2, WizardStep
<1>3. CASE Watch
  <2>1. PICK r \in Reading \cup {Gone}, l \in Load, found \in SUBSET Member,
             named \in SUBSET Member, answer \in {"same", "other", "unread"} :
             OpsCheck(r, l, named, found, answer)
    BY <1>3 DEF Watch
  <2>2. UNCHANGED wizardVars
    BY <1>3 DEF Watch
  <2> QED BY <2>1, <2>2, CheckKeeps, WizardStep
<1>4. CASE UNCHANGED vars
  BY <1>1, <1>4, WizardStep DEF vars
<1> QED BY <1>2, <1>3, <1>4 DEF Next

\* The invariant holds throughout.
LEMMA RolloutInvHolds == Spec => []RolloutInv
BY Init_RolloutInv, RolloutStep, PTL DEF Spec
-----------------------------------------------------------------------------
\* TypeOK: every variable of wizards and checks keeps its type.
THEOREM TypeCorrect == Spec => []TypeOK
<1>1. RolloutInv => TypeOK
  BY DEF RolloutInv, WizardInv, TypeOK
<1> QED BY <1>1, RolloutInvHolds, PTL

\* WorkIsInOrder: however many wizards (wizard.py) share one state file and
\* write it back from stale copies, no step of an environment succeeds before
\* every earlier one has.
THEOREM StepsSucceedInOrder == Spec => []WorkIsInOrder
<1>1. RolloutInv => WorkIsInOrder
  BY DEF RolloutInv, WizardInv
<1> QED BY <1>1, RolloutInvHolds, PTL

\* RecordIsEarned: wizard_state.json claims no step that has not succeeded, and
\* while wizards run one after the other it is a beginning of the seven steps.
THEOREM TheFileIsEarned == Spec => []RecordIsEarned
<1>1. RolloutInv => RecordIsEarned
  BY DEF RolloutInv, WizardInv, RecordIsEarned, Earned, InOrder
<1> QED BY <1>1, RolloutInvHolds, PTL

\* AllClearIsSeen: ops-check (ops_automation.py) never asks nobody to act after it
\* has seen nothing of a pool of which the discovery names a member, for whatever
\* sizes of pools, shares of healthy members and failures of its readings.
THEOREM NothingSeenIsNotClear == Spec => []AllClearIsSeen
<1>1. RolloutInv => AllClearIsSeen
  BY DEF RolloutInv
<1> QED BY <1>1, RolloutInvHolds, PTL
=============================================================================
