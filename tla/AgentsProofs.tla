------------------------------ MODULE AgentsProofs ------------------------------
(***************************************************************************)
(* Proofs about the two programs in which a model drives the work, for any *)
(* investigations, tool calls, evidence and promoted texts, and for Studio *)
(* threads with any number of tools, messages and interruptions, and any   *)
(* of the faults.                                                          *)
(***************************************************************************)
EXTENDS MCAgents, TLAPS

-------------------------------------------------------------------------------
(* INVESTIGATIONS                                                          *)

(***************************************************************************)
(* More evidence carries more signals and categories.                      *)
(***************************************************************************)
LEMMA EvidenceGrows ==
  ASSUME NEW A, NEW B, A \subseteq B
  PROVE  SignalsOf(A) \subseteq SignalsOf(B) /\ CategoriesOf(A) \subseteq CategoriesOf(B)
BY DEF SignalsOf, CategoriesOf

(***************************************************************************)
(* A promotion leaves every version that exists as it is.                  *)
(***************************************************************************)
LEMMA TextKept ==
  ASSUME TypeOK, NEW i \in Items, NEW k \in Knowledge, promote(i, k),
         NEW v \in Versions, v[2] \in DOMAIN promoted[v[1]]
  PROVE  v[2] \in DOMAIN promoted'[v[1]] /\ promoted'[v[1]][v[2]] = promoted[v[1]][v[2]]
<1>1. v[1] \in Items /\ promoted[v[1]] \in Seq(Knowledge) /\ promoted[i] \in Seq(Knowledge)
  BY DEF TypeOK, Versions
<1>2. promoted' = [promoted EXCEPT ![i] = Append(promoted[i], k)]
  BY DEF promote
<1>3. CASE v[1] = i
  <2>1. promoted'[v[1]] = Append(promoted[v[1]], k)
    BY <1>1, <1>2, <1>3 DEF TypeOK
  <2>2. QED
    BY <1>1, <2>1
<1>4. CASE v[1] # i
  BY <1>1, <1>2, <1>4 DEF TypeOK
<1>5. QED
  BY <1>3, <1>4

(***************************************************************************)
(* What is relevant to an investigation stays relevant.                    *)
(***************************************************************************)
LEMMA StaysRelevant ==
  ASSUME TypeOK, [Next]_vars, NEW t \in Threads, NEW v \in Versions, IsRelevant(t, v)
  PROVE  IsRelevant(t, v)'
<1>1. observed[t] \subseteq observed'[t]
  <2>1. CASE observed' = observed
    BY <2>1
  <2>2. ASSUME NEW u \in Threads, NEW e \in Evidence, observe(u, e)
        PROVE  observed[t] \subseteq observed'[t]
    BY <2>2 DEF observe, TypeOK
  <2>3. QED
    BY <2>1, <2>2 DEF Next, vars, promote, BeginSearch, BeginOpen, Answer,
       ReadCategories, Query, record_search, record_open
<1>2. /\ SignalsOf(observed[t]) \subseteq SignalsOf(observed'[t])
      /\ CategoriesOf(observed[t]) \subseteq CategoriesOf(observed'[t])
  BY <1>1, EvidenceGrows
<1>3. v[2] \in DOMAIN promoted'[v[1]] /\ promoted'[v[1]][v[2]] = promoted[v[1]][v[2]]
  <2>1. CASE promoted' = promoted
    BY <2>1 DEF IsRelevant
  <2>2. CASE \E i \in Items, k \in Knowledge : promote(i, k)
    BY <2>2, TextKept DEF IsRelevant
  <2>3. QED
    BY <2>1, <2>2 DEF Next, vars, observe, BeginSearch, BeginOpen, Answer,
       ReadCategories, Query, record_search, record_open
<1>4. QED
  BY <1>2, <1>3 DEF IsRelevant, Text, SignalsOf, CategoriesOf

TracesAreRelevant ==
  \A t \in Threads : \A v \in found[t] \cup opened[t] : IsRelevant(t, v)

LEMMA TracesStay ==
  ASSUME IInv, [Next]_vars, UNCHANGED <<found, opened>>
  PROVE  TracesAreRelevant'
<1> SUFFICES ASSUME NEW t \in Threads, NEW v \in found[t] \cup opened[t]
             PROVE  IsRelevant(t, v)'
  BY DEF TracesAreRelevant
<1>1. v \in Versions /\ IsRelevant(t, v) /\ TypeOK
  BY DEF IInv, TypeOK
<1>2. QED
  BY <1>1, StaysRelevant

LEMMA CallStays ==
  ASSUME IInv, [Next]_vars, NEW c \in Calls, call'[c] = call[c]
  PROVE  CallIsRelevant(c)'
<1> SUFFICES ASSUME call[c].pc # "idle" PROVE CallIsRelevant(c)'
  BY DEF CallIsRelevant
<1>1. TypeOK /\ call[c] \in CallStates
  BY DEF IInv, TypeOK
<1>2. PICK t \in Threads : t = call[c].thread
  BY DEF IInv, CallIsRelevant
<1>3. observed[t] \subseteq observed'[t]
  <2>1. CASE observed' = observed
    BY <2>1
  <2>2. ASSUME NEW u \in Threads, NEW e \in Evidence, observe(u, e)
        PROVE  observed[t] \subseteq observed'[t]
    BY <1>1, <2>2 DEF observe, TypeOK
  <2>3. QED
    BY <2>1, <2>2 DEF Next, vars, promote, BeginSearch, BeginOpen, Answer,
       ReadCategories, Query, record_search, record_open
<1>4. /\ SignalsOf(observed[t]) \subseteq SignalsOf(observed'[t])
      /\ CategoriesOf(observed[t]) \subseteq CategoriesOf(observed'[t])
  BY <1>3, EvidenceGrows
<1>5. ASSUME NEW v \in call[c].versions
      PROVE  IsRelevant(t, v)'
  <2>1. v \in Versions
    BY <1>1 DEF CallStates
  <2>2. IsRelevant(t, v)
    BY <1>2 DEF IInv, CallIsRelevant
  <2>3. QED
    BY <1>1, <2>1, <2>2, StaysRelevant
<1>6. /\ call[c].signals \subseteq SignalsOf(observed[t])
      /\ call[c].categories \subseteq CategoriesOf(observed[t])
  BY <1>2 DEF IInv, CallIsRelevant
<1>7. /\ call'[c].signals \subseteq SignalsOf(observed'[t])
      /\ call'[c].categories \subseteq CategoriesOf(observed'[t])
  BY <1>4, <1>6
<1>8. call'[c].thread = t /\ call'[c].versions = call[c].versions
  BY <1>2
<1>9. QED
  BY <1>5, <1>7, <1>8 DEF CallIsRelevant, SignalsOf, CategoriesOf

(***************************************************************************)
(* What a query returns is relevant wherever its signals and categories    *)
(* were observed.                                                          *)
(***************************************************************************)
LEMMA FoundIsRelevant ==
  ASSUME TypeOK, NEW t \in Threads,
         NEW signals, signals \subseteq SignalsOf(observed[t]),
         NEW categories, categories \subseteq CategoriesOf(observed[t]),
         NEW v \in find(signals, categories)
  PROVE  v \in Versions /\ IsRelevant(t, v)
<1>1. PICK i \in Items :
        /\ promoted[i] # <<>>
        /\ Matches(promoted[i][Len(promoted[i])], signals, categories)
        /\ v = <<i, Len(promoted[i])>>
  BY DEF find
<1>2. promoted[i] \in Seq(Knowledge) /\ Len(promoted[i]) <= MaxVersion
  BY DEF TypeOK
<1>3. Len(promoted[i]) \in 1 .. Len(promoted[i]) /\ Len(promoted[i]) \in 1 .. MaxVersion
  BY <1>1, <1>2, ToolsAssumption
<1>4. v[1] = i /\ v[2] = Len(promoted[i]) /\ v \in Versions
  BY <1>1, <1>3 DEF Versions
<1>5. v[2] \in DOMAIN promoted[v[1]]
  BY <1>2, <1>3, <1>4
<1>6. QED
  BY <1>1, <1>4, <1>5 DEF IsRelevant, Matches, Text

LEMMA InitIInv == Init => IInv
<1> SUFFICES ASSUME Init PROVE IInv
  OBVIOUS
<1>1. Idle \in CallStates
  BY DEF Idle, CallStates
<1>2. TypeOK
  BY <1>1, ToolsAssumption DEF Init, TypeOK
<1>3. \A c \in Calls : CallIsRelevant(c)
  BY DEF Init, Idle, CallIsRelevant
<1>4. QED
  BY <1>2, <1>3 DEF Init, IInv

(***************************************************************************)
(* Steps of the investigations and reviewers that no call takes.           *)
(***************************************************************************)
LEMMA OtherSteps ==
  ASSUME IInv, [Next]_vars,
         \/ UNCHANGED vars
         \/ \E i \in Items, k \in Knowledge : promote(i, k)
         \/ \E t \in Threads, e \in Evidence : observe(t, e)
         \/ \E t \in Threads, refs \in SUBSET Evidence,
               citation \in Versions \cup {None} : Answer(t, refs, citation)
  PROVE  IInv'
<1>1. UNCHANGED <<found, opened, call>>
  BY DEF vars, promote, observe, Answer
<1>2. \A c \in Calls : CallIsRelevant(c)'
  BY <1>1, CallStays
<1>3. TracesAreRelevant'
  BY <1>1, TracesStay
<1>4. observed' \in [Threads -> SUBSET Evidence]
  BY DEF vars, promote, observe, Answer, IInv, TypeOK
<1>5. promoted' \in [Items -> Seq(Knowledge)] /\ \A i \in Items : Len(promoted'[i]) <= MaxVersion
  <2>1. CASE promoted' = promoted
    BY <2>1 DEF IInv, TypeOK
  <2>2. ASSUME NEW i \in Items, NEW k \in Knowledge, promote(i, k)
        PROVE  promoted' \in [Items -> Seq(Knowledge)]
               /\ \A j \in Items : Len(promoted'[j]) <= MaxVersion
    <3>1. /\ promoted \in [Items -> Seq(Knowledge)]
          /\ \A j \in Items : Len(promoted[j]) <= MaxVersion
      BY DEF IInv, TypeOK
    <3>2. /\ Append(promoted[i], k) \in Seq(Knowledge)
          /\ Len(Append(promoted[i], k)) = Len(promoted[i]) + 1
          /\ Len(promoted[i]) \in Nat
      BY <3>1
    <3>3. Len(promoted[i]) + 1 <= MaxVersion
      BY <2>2, <3>2, ToolsAssumption DEF promote
    <3>4. promoted' = [promoted EXCEPT ![i] = Append(promoted[i], k)]
      BY <2>2 DEF promote
    <3>5. \A j \in Items : promoted'[j] = IF j = i THEN Append(promoted[i], k) ELSE promoted[j]
      BY <3>1, <3>4
    <3>6. QED
      BY <3>1, <3>2, <3>3, <3>4, <3>5
  <2>3. QED
    BY <2>1, <2>2 DEF vars, observe, Answer
<1>6. TypeOK'
  BY <1>1, <1>4, <1>5 DEF IInv, TypeOK
<1>7. QED
  BY <1>2, <1>3, <1>6 DEF IInv, TracesAreRelevant

(***************************************************************************)
(* A step of one call that leaves the traces alone.                        *)
(***************************************************************************)
LEMMA OneCallStep ==
  ASSUME IInv, [Next]_vars, NEW c \in Calls, NEW new \in CallStates,
         call' = [call EXCEPT ![c] = new],
         UNCHANGED <<promoted, observed, found, opened>>,
         CallIsRelevant(c)'
  PROVE  IInv'
<1>1. call \in [Calls -> CallStates]
  BY DEF IInv, TypeOK
<1>2. TypeOK'
  BY <1>1 DEF IInv, TypeOK
<1>3. ASSUME NEW d \in Calls PROVE CallIsRelevant(d)'
  <2>1. CASE d = c
    BY <2>1
  <2>2. CASE d # c
    BY <1>1, <2>2, CallStays
  <2>3. QED
    BY <2>1, <2>2
<1>4. TracesAreRelevant'
  BY TracesStay
<1>5. QED
  BY <1>2, <1>3, <1>4 DEF IInv, TracesAreRelevant

(***************************************************************************)
(* A search, step by step: what was read of the evidence stays a part of   *)
(* it, so what the registry returns for it is relevant when it is recorded.*)
(***************************************************************************)
LEMMA SearchSteps ==
  ASSUME IInv, [Next]_vars, NEW c \in Calls,
         \/ \E t \in Threads : BeginSearch(c, t)
         \/ ReadCategories(c)
         \/ Query(c)
  PROVE  IInv'
<1>1. /\ TypeOK
      /\ call \in [Calls -> CallStates]
      /\ call[c] \in CallStates
  BY DEF IInv, TypeOK
<1>2. ASSUME NEW t \in Threads, BeginSearch(c, t)
      PROVE  IInv'
    <2> DEFINE new == [Idle EXCEPT !.pc = "reading", !.thread = t,
                                   !.signals = SignalsOf(observed[t])]
    <2>1. observed[t] \subseteq Evidence
      BY <1>1 DEF TypeOK
    <2>2. SignalsOf(observed[t]) \subseteq SignalsOf(Evidence)
      BY <2>1, EvidenceGrows
    <2>3. /\ new.pc = "reading" /\ new.thread = t /\ new.versions = {}
          /\ new.signals = SignalsOf(observed[t]) /\ new.categories = {}
      BY DEF Idle
    <2>4. new \in CallStates
      BY <2>2 DEF Idle, CallStates
    <2>5. call' = [call EXCEPT ![c] = new] /\ UNCHANGED <<promoted, observed, found, opened>>
      BY <1>2 DEF BeginSearch
    <2>6. call'[c] = new
      BY <1>1, <2>5
    <2> HIDE DEF new
    <2>7. CallIsRelevant(c)'
      BY <2>3, <2>5, <2>6 DEF CallIsRelevant, SignalsOf, CategoriesOf
    <2>8. QED
      BY <2>4, <2>5, <2>7, OneCallStep
<1>3. CASE ReadCategories(c)
    <2> DEFINE new == [call[c] EXCEPT !.pc = "querying",
                         !.categories = CategoriesOf(observed[call[c].thread])]
    <2>1. CallIsRelevant(c) /\ call[c].pc = "reading"
      BY <1>3 DEF IInv, ReadCategories
    <2>2. PICK t \in Threads : t = call[c].thread
      BY <2>1 DEF CallIsRelevant
    <2>3. observed[t] \subseteq Evidence
      BY <1>1 DEF TypeOK
    <2>4. CategoriesOf(observed[t]) \subseteq CategoriesOf(Evidence)
      BY <2>3, EvidenceGrows
    <2>5. /\ new.pc = "querying" /\ new.thread = t /\ new.versions = call[c].versions
          /\ new.signals = call[c].signals
          /\ new.categories = CategoriesOf(observed[t])
      BY <1>1, <2>2 DEF CallStates
    <2>6. new \in CallStates
      BY <1>1, <2>2, <2>4 DEF CallStates
    <2>7. call' = [call EXCEPT ![c] = new] /\ UNCHANGED <<promoted, observed, found, opened>>
      BY <1>3 DEF ReadCategories
    <2>8. call'[c] = new
      BY <1>1, <2>7
    <2>9. call[c].signals \subseteq SignalsOf(observed[t])
      BY <2>1, <2>2 DEF CallIsRelevant
    <2>10. \A v \in call[c].versions : v \in Versions /\ IsRelevant(t, v)
      BY <1>1, <2>1, <2>2 DEF CallIsRelevant, CallStates
    <2> HIDE DEF new
    <2>11. \A v \in call[c].versions : IsRelevant(t, v)'
      BY <1>1, <2>10, StaysRelevant
    <2>12. CallIsRelevant(c)'
      BY <2>5, <2>7, <2>8, <2>9, <2>11 DEF CallIsRelevant, SignalsOf, CategoriesOf
    <2>13. QED
      BY <2>6, <2>7, <2>12, OneCallStep
<1>4. CASE Query(c)
    <2> DEFINE new == [call[c] EXCEPT !.pc = "searched",
                         !.versions = find(call[c].signals, call[c].categories)]
    <2>1. CallIsRelevant(c) /\ call[c].pc = "querying"
      BY <1>4 DEF IInv, Query
    <2>2. PICK t \in Threads : t = call[c].thread
      BY <2>1 DEF CallIsRelevant
    <2>3. /\ call[c].signals \subseteq SignalsOf(observed[t])
          /\ call[c].categories \subseteq CategoriesOf(observed[t])
      BY <2>1, <2>2 DEF CallIsRelevant
    <2>4. \A v \in find(call[c].signals, call[c].categories) :
            v \in Versions /\ IsRelevant(t, v)
      BY <1>1, <2>3, FoundIsRelevant
    <2>5. /\ new.pc = "searched" /\ new.thread = t
          /\ new.versions = find(call[c].signals, call[c].categories)
          /\ new.signals = call[c].signals /\ new.categories = call[c].categories
      BY <1>1, <2>2 DEF CallStates
    <2>6. new \in CallStates
      BY <1>1, <2>2, <2>4 DEF CallStates
    <2>7. call' = [call EXCEPT ![c] = new] /\ UNCHANGED <<promoted, observed, found, opened>>
      BY <1>4 DEF Query
    <2>8. call'[c] = new
      BY <1>1, <2>7
    <2> HIDE DEF new
    <2>9. \A v \in find(call[c].signals, call[c].categories) : IsRelevant(t, v)'
      BY <1>1, <2>4, StaysRelevant
    <2>10. CallIsRelevant(c)'
      BY <2>3, <2>5, <2>7, <2>8, <2>9 DEF CallIsRelevant, SignalsOf, CategoriesOf
    <2>11. QED
      BY <2>6, <2>7, <2>10, OneCallStep
<1>5. QED
  BY <1>2, <1>3, <1>4

(***************************************************************************)
(* Opening: only what the investigation's last search recorded.            *)
(***************************************************************************)
LEMMA BeginOpenStep ==
  ASSUME IInv, [Next]_vars, NEW c \in Calls, NEW t \in Threads, NEW v \in Versions,
         BeginOpen(c, t, v)
  PROVE  IInv'
<1> DEFINE new == [Idle EXCEPT !.pc = "opening", !.thread = t, !.versions = {v}]
<1>1. TypeOK /\ call \in [Calls -> CallStates]
  BY DEF IInv, TypeOK
<1>2. IsRelevant(t, v)
  BY DEF BeginOpen, may_open, IInv
<1>3. /\ new.pc = "opening" /\ new.thread = t /\ new.versions = {v}
      /\ new.signals = {} /\ new.categories = {}
  BY DEF Idle
<1>4. new \in CallStates
  BY DEF Idle, CallStates
<1>5. call' = [call EXCEPT ![c] = new] /\ UNCHANGED <<promoted, observed, found, opened>>
  BY DEF BeginOpen
<1>6. call'[c] = new
  BY <1>1, <1>5
<1> HIDE DEF new
<1>7. IsRelevant(t, v)'
  BY <1>1, <1>2, StaysRelevant
<1>8. CallIsRelevant(c)'
  BY <1>3, <1>6, <1>7 DEF CallIsRelevant
<1>9. QED
  BY <1>4, <1>5, <1>8, OneCallStep

(***************************************************************************)
(* A call that records what it carries and returns.                        *)
(***************************************************************************)
LEMMA RecordingSteps ==
  ASSUME IInv, [Next]_vars, NEW c \in Calls, record_search(c) \/ record_open(c)
  PROVE  IInv'
<1>1. /\ TypeOK
      /\ call \in [Calls -> CallStates]
      /\ call[c] \in CallStates
  BY DEF IInv, TypeOK
<1>2. call[c].pc # "idle" /\ CallIsRelevant(c)
  BY DEF IInv, record_search, record_open
<1>3. PICK t \in Threads : t = call[c].thread
  BY <1>2 DEF CallIsRelevant
<1>4. \A v \in call[c].versions : v \in Versions /\ IsRelevant(t, v)
  BY <1>1, <1>2, <1>3 DEF CallIsRelevant, CallStates
<1>5. call' = [call EXCEPT ![c] = Idle] /\ UNCHANGED <<promoted, observed>>
  BY DEF record_search, record_open, Return
<1>6. Idle \in CallStates /\ Idle.pc = "idle"
  BY DEF Idle, CallStates
<1>7. found' \in [Threads -> SUBSET Versions] /\ opened' \in [Threads -> SUBSET Versions]
  BY <1>1, <1>3, <1>4 DEF TypeOK, record_search, record_open
<1>8. TypeOK'
  BY <1>1, <1>5, <1>6, <1>7 DEF TypeOK
<1>9. ASSUME NEW d \in Calls PROVE CallIsRelevant(d)'
  <2>1. CASE d = c
    BY <1>1, <1>5, <1>6, <2>1 DEF CallIsRelevant
  <2>2. CASE d # c
    BY <1>1, <1>5, <2>2, CallStays
  <2>3. QED
    BY <2>1, <2>2
<1>10. ASSUME NEW u \in Threads, NEW v \in found'[u] \cup opened'[u]
       PROVE  IsRelevant(u, v)'
  <2>1. v \in found[u] \cup opened[u] \/ (u = t /\ v \in call[c].versions)
    BY <1>1, <1>3, <1>10 DEF TypeOK, record_search, record_open
  <2>2. v \in Versions /\ IsRelevant(u, v)
    BY <1>1, <1>4, <2>1 DEF IInv, TypeOK
  <2>3. QED
    BY <1>1, <2>2, StaysRelevant
<1>11. QED
  BY <1>8, <1>9, <1>10 DEF IInv

LEMMA NextIInv == IInv /\ [Next]_vars => IInv'
<1> SUFFICES ASSUME IInv, [Next]_vars PROVE IInv'
  OBVIOUS
<1>1. CASE \/ UNCHANGED vars
           \/ \E i \in Items, k \in Knowledge : promote(i, k)
           \/ \E t \in Threads, e \in Evidence : observe(t, e)
           \/ \E t \in Threads, refs \in SUBSET Evidence,
                 citation \in Versions \cup {None} : Answer(t, refs, citation)
  BY <1>1, OtherSteps
<1>2. ASSUME NEW c \in Calls, NEW t \in Threads, BeginSearch(c, t)
      PROVE  IInv'
  BY <1>2, SearchSteps
<1>3. ASSUME NEW c \in Calls, NEW t \in Threads, NEW v \in Versions, BeginOpen(c, t, v)
      PROVE  IInv'
  BY <1>3, BeginOpenStep
<1>4. ASSUME NEW c \in Calls, ReadCategories(c) \/ Query(c)
      PROVE  IInv'
  BY <1>4, SearchSteps
<1>5. ASSUME NEW c \in Calls, record_search(c) \/ record_open(c)
      PROVE  IInv'
  BY <1>5, RecordingSteps
<1>6. QED
  BY <1>1, <1>2, <1>3, <1>4, <1>5 DEF Next

(***************************************************************************)
(* The inductive invariant: evidence and versions are only ever added, so  *)
(* what a call has read stays true until it is recorded.                   *)
(***************************************************************************)
THEOREM InductiveInvariant == Spec => []IInv
<1>1. Init => IInv
  BY InitIInv
<1>2. IInv /\ [Next]_vars => IInv'
  BY NextIInv
<1>3. QED
  BY <1>1, <1>2, PTL DEF Spec

(***************************************************************************)
(* An investigation only ever opens promoted versions that its own         *)
(* evidence supports, whichever tool calls run beside each other.          *)
(***************************************************************************)
THEOREM RelevantKnowledgeOnly == Spec => []OpenedIsRelevant
<1>1. IInv => OpenedIsRelevant
  BY DEF IInv, OpenedIsRelevant
<1>2. QED
  BY <1>1, InductiveInvariant, PTL

(***************************************************************************)
(* Accepted answers.  The tools of an investigation have returned when it  *)
(* answers and it starts no more of them, so that nothing is opened after  *)
(* the check; what the check compared is kept or only grows.               *)
(***************************************************************************)
IsOver(t) == \A c \in Calls : call[c].pc # "idle" => call[c].thread # t

RestsOnOpened(t) ==
  LET d == diagnosis[t]
  IN  /\ d.refs \subseteq observed[t]
      /\ (d.citation = None) <=> (opened[t] = {})
      /\ opened[t] # {} => CategoriesOf(d.refs) \subseteq Scope(t)

AnswerInv ==
  /\ diagnosis = [t \in Threads |-> diagnosis[t]]
  /\ \A t \in Threads : Accepted(t) => IsOver(t) /\ RestsOnOpened(t)

LEMMA AnswerInit == Init => AnswerInv
BY DEF Init, AnswerInv, Accepted

(***************************************************************************)
(* The step of another's answer, of a tool or of a reviewer leaves an      *)
(* accepted answer alone.                                                  *)
(***************************************************************************)
LEMMA AcceptedStays ==
  ASSUME IInv, AnswerInv, [Next]_vars, NEW t \in Threads,
         Accepted(t), diagnosis'[t] = diagnosis[t]
  PROVE  IsOver(t)' /\ RestsOnOpened(t)'
<1>1. /\ TypeOK /\ call \in [Calls -> CallStates]
      /\ opened \in [Threads -> SUBSET Versions]
      /\ observed \in [Threads -> SUBSET Evidence]
  BY DEF IInv, TypeOK
<1>2. IsOver(t) /\ RestsOnOpened(t) /\ ~IsRunning(t)
  BY DEF AnswerInv, Accepted, IsRunning
<1>3. IsOver(t)'
  <2>1. ASSUME NEW c \in Calls, NEW u \in Threads,
               BeginSearch(c, u) \/ \E v \in Versions : BeginOpen(c, u, v)
        PROVE  IsOver(t)'
    <3>1. u # t
      BY <1>2, <2>1 DEF BeginSearch, BeginOpen
    <3>2. call'[c].thread = u
      BY <1>1, <2>1 DEF BeginSearch, BeginOpen, Idle
    <3>3. \A d \in Calls : d # c => call'[d] = call[d]
      BY <1>1, <2>1 DEF BeginSearch, BeginOpen
    <3>4. QED
      BY <1>2, <3>1, <3>2, <3>3 DEF IsOver
  <2>2. ASSUME NEW c \in Calls, ReadCategories(c) \/ Query(c)
        PROVE  IsOver(t)'
    <3>1. call[c].pc # "idle" /\ call'[c].thread = call[c].thread
      BY <1>1, <2>2 DEF ReadCategories, Query, CallStates
    <3>2. \A d \in Calls : d # c => call'[d] = call[d]
      BY <1>1, <2>2 DEF ReadCategories, Query
    <3>3. QED
      BY <1>2, <3>1, <3>2 DEF IsOver
  <2>3. ASSUME NEW c \in Calls, record_search(c) \/ record_open(c)
        PROVE  IsOver(t)'
    <3>1. call'[c].pc = "idle"
      BY <1>1, <2>3 DEF record_search, record_open, Return, Idle
    <3>2. \A d \in Calls : d # c => call'[d] = call[d]
      BY <1>1, <2>3 DEF record_search, record_open, Return
    <3>3. QED
      BY <1>2, <3>1, <3>2 DEF IsOver
  <2>4. CASE UNCHANGED call
    BY <1>2, <2>4 DEF IsOver
  <2>5. QED
    BY <2>1, <2>2, <2>3, <2>4 DEF Next, vars, promote, observe, Answer
<1>4. opened'[t] = opened[t]
  <2>1. ASSUME NEW c \in Calls, record_open(c)
        PROVE  opened'[t] = opened[t]
    <3>1. call[c].thread # t
      BY <1>2, <2>1 DEF IsOver, record_open
    <3>2. QED
      BY <1>1, <2>1, <3>1 DEF record_open
  <2>2. QED
    BY <2>1 DEF Next, vars, promote, observe, BeginSearch, BeginOpen, Answer,
       ReadCategories, Query, record_search
<1>5. observed[t] \subseteq observed'[t]
  <2>1. ASSUME NEW u \in Threads, NEW e \in Evidence, observe(u, e)
        PROVE  observed[t] \subseteq observed'[t]
    BY <1>1, <2>1 DEF observe
  <2>2. QED
    BY <2>1 DEF Next, vars, promote, BeginSearch, BeginOpen, Answer,
       ReadCategories, Query, record_search, record_open
<1>6. \A v \in opened[t] : Text(v)' = Text(v)
  <2> SUFFICES ASSUME NEW v \in opened[t] PROVE Text(v)' = Text(v)
    OBVIOUS
  <2>1. v \in Versions /\ v[2] \in DOMAIN promoted[v[1]]
    BY <1>1 DEF IInv, IsRelevant
  <2>2. CASE promoted' = promoted
    BY <2>2 DEF Text
  <2>3. CASE \E i \in Items, k \in Knowledge : promote(i, k)
    BY <1>1, <2>1, <2>3, TextKept DEF Text
  <2>4. QED
    BY <2>2, <2>3 DEF Next, vars, observe, BeginSearch, BeginOpen, Answer,
       ReadCategories, Query, record_search, record_open
<1>7. Scope(t)' = Scope(t)
  BY <1>4, <1>6 DEF Scope
<1>8. RestsOnOpened(t)'
  BY <1>2, <1>4, <1>5, <1>7 DEF RestsOnOpened, CategoriesOf
<1>9. QED
  BY <1>3, <1>8

LEMMA AnswerStep ==
  ASSUME IInv, AnswerInv, [Next]_vars PROVE AnswerInv'
<1>1. CASE UNCHANGED diagnosis
  <2>1. ASSUME NEW t \in Threads, Accepted(t)'
        PROVE  IsOver(t)' /\ RestsOnOpened(t)'
    BY <1>1, <2>1, AcceptedStays DEF Accepted, Rejected
  <2>2. QED
    BY <1>1, <2>1 DEF AnswerInv
<1>2. ASSUME NEW u \in Threads, NEW refs \in SUBSET Evidence,
             NEW citation \in Versions \cup {None}, Answer(u, refs, citation)
      PROVE  AnswerInv'
  <2>1. /\ diagnosis' = [t \in Threads |-> diagnosis'[t]]
        /\ \A t \in Threads : t # u => diagnosis'[t] = diagnosis[t]
        /\ diagnosis'[u] = IF IsSupported(u, refs, citation)
                           THEN [refs |-> refs, citation |-> citation]
                           ELSE Rejected
    BY <1>2 DEF AnswerInv, Answer
  <2>2. ASSUME NEW t \in Threads, Accepted(t)'
        PROVE  IsOver(t)' /\ RestsOnOpened(t)'
    <3>1. CASE t # u
      BY <2>1, <2>2, <3>1, AcceptedStays DEF Accepted, Rejected
    <3>2. CASE t = u
      <4>1. IsSupported(t, refs, citation)
        BY <2>1, <2>2, <3>2 DEF Accepted, Rejected
      <4>2. diagnosis'[t].refs = refs /\ diagnosis'[t].citation = citation
        BY <2>1, <3>2, <4>1
      <4>3. UNCHANGED <<promoted, observed, opened, call>>
        BY <1>2 DEF Answer
      <4>4. RestsOnOpened(t)'
        BY <4>1, <4>2, <4>3 DEF IsSupported, RestsOnOpened, Scope, Text, CategoriesOf
      <4>5. IsOver(t)'
        BY <1>2, <3>2, <4>3 DEF Answer, IsOver
      <4>6. QED
        BY <4>4, <4>5
    <3>3. QED
      BY <3>1, <3>2
  <2>3. QED
    BY <2>1, <2>2 DEF AnswerInv
<1>3. QED
  BY <1>1, <1>2 DEF Next, vars, promote, observe, BeginSearch, BeginOpen,
     ReadCategories, Query, record_search, record_open

(***************************************************************************)
(* Both invariants of the investigations.                                  *)
(***************************************************************************)
THEOREM AnswersInvariant == Spec => [](IInv /\ AnswerInv)
<1>1. Init => AnswerInv
  BY AnswerInit
<1>2. IInv /\ AnswerInv /\ [Next]_vars => AnswerInv'
  BY AnswerStep
<1>3. QED
  BY <1>1, <1>2, InductiveInvariant, PTL DEF Spec

(***************************************************************************)
(* An accepted diagnosis cites its own investigation's evidence, and what  *)
(* it opened covers all of it, whatever happens after the answer.          *)
(***************************************************************************)
THEOREM AnswersRestOnEvidence == Spec => []AcceptedRestsOnEvidence
<1>1. IInv /\ AnswerInv => AcceptedRestsOnEvidence
  <2> SUFFICES ASSUME IInv, AnswerInv, NEW t \in Threads, Accepted(t)
               PROVE  LET d == diagnosis[t]
                      IN  /\ d.refs \subseteq observed[t]
                          /\ (d.citation = None) <=> (opened[t] = {})
                          /\ \A e \in d.refs : opened[t] = {} \/
                               \E v \in opened[t] :
                                 /\ Category[e] \in Text(v).categories
                                 /\ Text(v).signals \subseteq SignalsOf(observed[t])
    BY DEF AcceptedRestsOnEvidence
  <2>1. RestsOnOpened(t)
    BY DEF AnswerInv
  <2>2. \A v \in opened[t] : Text(v).signals \subseteq SignalsOf(observed[t])
    BY DEF IInv, IsRelevant
  <2>3. ASSUME NEW e \in diagnosis[t].refs, opened[t] # {}
        PROVE  \E v \in opened[t] : Category[e] \in Text(v).categories
    BY <2>1, <2>3 DEF RestsOnOpened, Scope, CategoriesOf
  <2>4. QED
    BY <2>1, <2>2, <2>3 DEF RestsOnOpened
<1>2. QED
  BY <1>1, AnswersInvariant, PTL

-------------------------------------------------------------------------------
(* THE STUDIO THREAD                                                       *)

(***************************************************************************)
(* What the run of the thread's key tells of its effects, answer and       *)
(* trail: no effect before it is claimed, one once it succeeded.           *)
(***************************************************************************)
RunTells ==
  /\ run = "absent" => trail = Workflow!NoTrail /\ effects = 0 /\ answer = "none"
  /\ run \in {"intake", "proposed", "approved", "rejected", "expired"} =>
       effects = 0
  /\ run \in {"approved", "executing", "succeeded"} => answer = "approve"
  /\ run = "succeeded" => effects = 1
  /\ effects = 1 => run \in {"executing", "succeeded", "failed"} /\ answer = "approve"

(***************************************************************************)
(* What the node and its step tell of the run.                             *)
(***************************************************************************)
StepTells ==
  /\ Workflow!At("build", "tools") => run = "proposed"
  /\ Workflow!At("approval", "decided") =>
       answer # "none" /\ run = Workflow!Expected(answer)
  /\ Workflow!At("execute", "claimed") => run = "executing" /\ effects = 0
  /\ Workflow!At("execute", "acted") => run = "executing" /\ effects = 1
  /\ Workflow!At("execute", "finalized") => run \in {"succeeded", "failed"} /\ effects = 1
  /\ run # "absent" /\ checkpoint = "execute" =>
       run \in {"approved", "executing", "succeeded", "failed", "expired"}
  /\ run # "absent" /\ checkpoint = "verify" =>
       run \in {"succeeded", "failed"} /\ effects = 1

TrailTells ==
  /\ trail.verified <= 1
  /\ trail.verified = 1 => run \in {"succeeded", "failed"} /\ effects = 1
  /\ run # "absent" /\ checkpoint \in {"approval", "execute", "verify"} =>
       trail.tools = Tools

ThreadInv ==
  /\ Workflow!TypeOK
  /\ effects <= 1
  /\ RunTells
  /\ StepTells
  /\ TrailTells

LEMMA ThreadInit == Workflow!Init => ThreadInv
BY DEF Workflow!Init, ThreadInv, Workflow!TypeOK, Workflow!Nodes, Workflow!RunStates,
   Workflow!NoTrail, Workflow!At, RunTells, StepTells, TrailTells

(***************************************************************************)
(* One lemma for each node of the graph, and one for its surroundings.     *)
(***************************************************************************)
LEMMA BuildSteps ==
  ASSUME ThreadInv,
         \/ Workflow!Investigate \/ Workflow!SubmitEvent \/ Workflow!IntakeFails
         \/ Workflow!RecordTool \/ Workflow!SaveProposal
  PROVE  ThreadInv'
<1> USE DEF ThreadInv, Workflow!TypeOK, Workflow!Nodes, Workflow!RunStates,
    Workflow!NoTrail, Workflow!At, Workflow!Goto, Workflow!Save,
    RunTells, StepTells, TrailTells
<1>1. CASE Workflow!Investigate
  BY <1>1 DEF Workflow!Investigate
<1>2. CASE Workflow!SubmitEvent
  BY <1>2 DEF Workflow!SubmitEvent
<1>3. CASE Workflow!IntakeFails
  BY <1>3 DEF Workflow!IntakeFails
<1>4. CASE Workflow!RecordTool
  <2>1. /\ trail'.tools \in Nat /\ trail'.verified = trail.verified
        /\ trail' \in [tools : Nat, verified : Nat]
    BY <1>4 DEF Workflow!RecordTool
  <2>2. QED
    BY <1>4, <2>1 DEF Workflow!RecordTool
<1>5. CASE Workflow!SaveProposal
  BY <1>5 DEF Workflow!SaveProposal
<1>6. QED
  BY <1>1, <1>2, <1>3, <1>4, <1>5

LEMMA ApprovalSteps ==
  ASSUME ThreadInv,
         \/ \E decision \in {"approve", "reject"} : Workflow!Resume(decision)
         \/ Workflow!SaveDecision \/ Workflow!Expire
  PROVE  ThreadInv'
<1> USE DEF ThreadInv, Workflow!TypeOK, Workflow!Nodes, Workflow!RunStates,
    Workflow!NoTrail, Workflow!At, Workflow!Goto, Workflow!Save,
    RunTells, StepTells, TrailTells, Workflow!Expected
<1>1. ASSUME NEW decision \in {"approve", "reject"}, Workflow!Resume(decision)
      PROVE  ThreadInv'
  BY <1>1 DEF Workflow!Resume
<1>2. CASE Workflow!SaveDecision
  BY <1>2 DEF Workflow!SaveDecision
<1>3. CASE Workflow!Expire
  BY <1>3 DEF Workflow!Expire
<1>4. QED
  BY <1>1, <1>2, <1>3

LEMMA ExecuteSteps ==
  ASSUME ThreadInv,
         \/ Workflow!Claim \/ Workflow!Act \/ Workflow!Finalize
         \/ Workflow!SaveExecution
  PROVE  ThreadInv'
<1> USE DEF ThreadInv, Workflow!TypeOK, Workflow!Nodes, Workflow!RunStates,
    Workflow!NoTrail, Workflow!At, Workflow!Goto, Workflow!Save,
    RunTells, StepTells, TrailTells
<1>1. CASE Workflow!Claim
  BY <1>1 DEF Workflow!Claim
<1>2. CASE Workflow!Act
  BY <1>2 DEF Workflow!Act
<1>3. CASE Workflow!Finalize
  BY <1>3 DEF Workflow!Finalize
<1>4. CASE Workflow!SaveExecution
  BY <1>4 DEF Workflow!SaveExecution
<1>5. QED
  BY <1>1, <1>2, <1>3, <1>4

LEMMA VerifySteps ==
  ASSUME ThreadInv, Workflow!RecordVerification \/ Workflow!SaveVerification
  PROVE  ThreadInv'
<1> USE DEF ThreadInv, Workflow!TypeOK, Workflow!Nodes, Workflow!RunStates,
    Workflow!NoTrail, Workflow!At, Workflow!Goto, Workflow!Save,
    RunTells, StepTells, TrailTells
<1>1. CASE Workflow!RecordVerification
  <2>1. /\ trail' \in [tools : Nat, verified : Nat]
        /\ trail'.tools = trail.tools /\ trail'.verified = 1
    BY <1>1 DEF Workflow!RecordVerification
  <2>2. QED
    BY <1>1, <2>1 DEF Workflow!RecordVerification
<1>2. CASE Workflow!SaveVerification
  BY <1>2 DEF Workflow!SaveVerification
<1>3. QED
  BY <1>1, <1>2

LEMMA SurroundingSteps ==
  ASSUME ThreadInv,
         \/ UNCHANGED threadVars
         \/ Workflow!Interrupt \/ Workflow!SendMessage \/ Workflow!Restart
  PROVE  ThreadInv'
<1> USE DEF ThreadInv, Workflow!TypeOK, Workflow!Nodes, Workflow!RunStates,
    Workflow!NoTrail, Workflow!At, Workflow!Goto, Workflow!Save,
    RunTells, StepTells, TrailTells
<1>1. CASE UNCHANGED threadVars
  BY <1>1 DEF threadVars, Workflow!Expected
<1>2. CASE Workflow!Interrupt
  <2>1. usage' \in [interrupts : Nat, messages : Nat]
    BY <1>2 DEF Workflow!Interrupt
  <2>2. QED
    BY <1>2, <2>1 DEF Workflow!Interrupt
<1>3. CASE Workflow!SendMessage
  <2>1. usage' \in [interrupts : Nat, messages : Nat]
    BY <1>3 DEF Workflow!SendMessage
  <2>2. QED
    BY <1>3, <2>1 DEF Workflow!SendMessage
<1>4. CASE Workflow!Restart
  BY <1>4 DEF Workflow!Restart
<1>5. QED
  BY <1>1, <1>2, <1>3, <1>4

LEMMA ThreadStep == ThreadInv /\ [Workflow!Next]_threadVars => ThreadInv'
<1> SUFFICES ASSUME ThreadInv, [Workflow!Next]_threadVars PROVE ThreadInv'
  OBVIOUS
<1>1. QED
  BY BuildSteps, ApprovalSteps, ExecuteSteps, VerifySteps, SurroundingSteps
  DEF Workflow!Next, Workflow!Node

-------------------------------------------------------------------------------
(* BOTH PROGRAMS                                                           *)

(***************************************************************************)
(* The two programs are the investigations and the thread, side by side.   *)
(***************************************************************************)
THEOREM AgentsAreBoth == AgentsSpec => Spec /\ Workflow!Spec
<1>1. AgentsInit => Init /\ Workflow!Init
  BY DEF AgentsInit
<1>2. [AgentsNext]_agentsVars => [Next]_vars /\ [Workflow!Next]_(Workflow!vars)
  BY DEF AgentsNext, agentsVars, threadVars, Workflow!vars
<1>3. QED
  BY <1>1, <1>2, PTL DEF AgentsSpec, Spec, Workflow!Spec

(***************************************************************************)
(* The invariant of the thread.                                            *)
(***************************************************************************)
THEOREM ThreadInvariant == Workflow!Spec => []ThreadInv
<1>1. ThreadInv /\ [Workflow!Next]_(Workflow!vars) => ThreadInv'
  BY ThreadStep DEF Workflow!vars, threadVars
<1>2. QED
  BY <1>1, ThreadInit, PTL DEF Workflow!Spec

(***************************************************************************)
(* However often the nodes of a thread are interrupted and run again, its  *)
(* action is taken at most once, by the human's approval, and verified at  *)
(* most once.                                                              *)
(***************************************************************************)
THEOREM EffectsAndVerificationsOnce == AgentsSpec => []ActsAndVerifiesOnce
<1>1. ThreadInv => ActsAndVerifiesOnce
  BY DEF ThreadInv, RunTells, TrailTells, ActsAndVerifiesOnce,
     Workflow!ActsAndVerifiesOnce, Workflow!TypeOK
<1>2. QED
  BY <1>1, AgentsAreBoth, ThreadInvariant, PTL

(***************************************************************************)
(* The graph is never ahead of, or against, what the database records of   *)
(* its proposal and decision.                                              *)
(***************************************************************************)
THEOREM GraphAgreesWithRecord == AgentsSpec => []GraphFollowsRecord
<1>1. ThreadInv => GraphFollowsRecord
  BY DEF ThreadInv, StepTells, TrailTells, GraphFollowsRecord,
     Workflow!GraphFollowsRecord, Workflow!At
<1>2. QED
  BY <1>1, AgentsAreBoth, ThreadInvariant, PTL

===============================================================================
