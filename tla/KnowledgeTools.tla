----------------------------- MODULE KnowledgeTools -----------------------------
(***************************************************************************)
(* An investigation that may use what reviewers promoted: its diagnostic   *)
(* tools record evidence, its search returns the promoted versions that    *)
(* the evidence supports, and only a version a search returned can be      *)
(* opened.  The application then checks the model's diagnosis against what *)
(* was observed and opened.  The tools of one model message run in         *)
(* parallel threads, and reviewers promote new versions meanwhile.         *)
(* Runbooks and capabilities have the same tools, traces and checks.       *)
(***************************************************************************)
EXTENDS Naturals, Sequences

CONSTANTS
  Threads,     \* thread_id of each investigation
  Calls,       \* tool calls that can be under way at once
  Evidence,    \* evidence_id values
  Category,    \* the category of each
  Signals,     \* and the signals it carries
  Observable,  \* the evidence that the telemetry of each investigation holds
  Items,       \* runbook_id or capability_id
  Knowledge,   \* promoted texts: [signals, categories], what each requires
  Required,    \* investigations run with require_runbook or _capability
  MaxVersion,  \* bound of the model: versions of one item
  None

ASSUME ToolsAssumption ==
  /\ \A k \in Knowledge : k.signals # {} /\ k.categories # {}
  /\ Observable \in [Threads -> SUBSET Evidence]
  /\ Required \subseteq Threads
  /\ MaxVersion \in Nat

VARIABLES
  promoted,   \* the promoted versions of each item
  observed,   \* InvestigationTrace: evidence recorded per thread
  found,      \* KnowledgeTrace: result of the last search per thread
  opened,     \* KnowledgeTrace: citations handed out per thread
  call,       \* local variables of the tool calls under way
  diagnosis   \* what the application made of the model's answer

vars == <<promoted, observed, found, opened, call, diagnosis>>

SignalsOf(evidence) == UNION {Signals[e] : e \in evidence}

CategoriesOf(evidence) == {Category[e] : e \in evidence}

Versions == Items \X (1 .. MaxVersion)

Text(v) == promoted[v[1]][v[2]]

Idle == [pc |-> "idle", thread |-> None, signals |-> {}, categories |-> {},
         versions |-> {}]

CallStates ==
  [pc         : {"idle", "reading", "querying", "searched", "opening"},
   thread     : Threads \cup {None},
   signals    : SUBSET SignalsOf(Evidence),
   categories : SUBSET CategoriesOf(Evidence),
   versions   : SUBSET Versions]

TypeOK ==
  /\ promoted \in [Items -> Seq(Knowledge)]
  /\ \A i \in Items : Len(promoted[i]) <= MaxVersion
  /\ observed \in [Threads -> SUBSET Evidence]
  /\ found \in [Threads -> SUBSET Versions]
  /\ opened \in [Threads -> SUBSET Versions]
  /\ call \in [Calls -> CallStates]

Init ==
  /\ promoted = [i \in Items |-> <<>>]
  /\ observed = [t \in Threads |-> {}]
  /\ found = [t \in Threads |-> {}]
  /\ opened = [t \in Threads |-> {}]
  /\ call = [c \in Calls |-> Idle]
  /\ diagnosis = [t \in Threads |-> None]

IsRunning(t) == diagnosis[t] = None

Rejected == [refs |-> {}, citation |-> None]

\* A diagnosis cites some evidence, or its schema rejects it.
Accepted(t) == diagnosis[t] \notin {None, Rejected}

Return(c) == call' = [call EXCEPT ![c] = Idle]

-------------------------------------------------------------------------------

promote(i, k) ==
  /\ Len(promoted[i]) < MaxVersion
  /\ promoted' = [promoted EXCEPT ![i] = Append(@, k)]
  /\ UNCHANGED <<observed, found, opened, call, diagnosis>>

(***************************************************************************)
(* A diagnostic tool: the observation is recorded under the thread's lock. *)
(***************************************************************************)
observe(t, e) ==
  /\ IsRunning(t)
  /\ e \in Observable[t]
  /\ observed' = [observed EXCEPT ![t] = @ \cup {e}]
  /\ UNCHANGED <<promoted, found, opened, call, diagnosis>>

(***************************************************************************)
(* A search: the trace is read for its signals, then again for its         *)
(* categories, the registry is queried, and the result recorded.           *)
(***************************************************************************)
BeginSearch(c, t) ==
  /\ call[c].pc = "idle"
  /\ IsRunning(t)
  /\ call' = [call EXCEPT ![c] = [Idle EXCEPT
                !.pc = "reading", !.thread = t,
                !.signals = SignalsOf(observed[t])]]
  /\ UNCHANGED <<promoted, observed, found, opened, diagnosis>>

ReadCategories(c) ==
  /\ call[c].pc = "reading"
  /\ call' = [call EXCEPT
                ![c].pc = "querying",
                ![c].categories = CategoriesOf(observed[call[c].thread])]
  /\ UNCHANGED <<promoted, observed, found, opened, diagnosis>>

\* Faulty: the categories a version requires are not compared.
Matches_signals(k, signals, categories) == k.signals \subseteq signals

Matches(k, signals, categories) ==
  k.signals \subseteq signals /\ k.categories \subseteq categories

\* find_applicable, find_approved: the latest version of each item, if it matches.
find(signals, categories) ==
  {<<i, Len(promoted[i])>> : i \in
     {j \in Items : /\ promoted[j] # <<>>
                    /\ Matches(promoted[j][Len(promoted[j])],
                               signals, categories)}}

Query(c) ==
  /\ call[c].pc = "querying"
  /\ call' = [call EXCEPT
                ![c].pc = "searched",
                ![c].versions = find(call[c].signals, call[c].categories)]
  /\ UNCHANGED <<promoted, observed, found, opened, diagnosis>>

record_search(c) ==
  /\ call[c].pc = "searched"
  /\ found' = [found EXCEPT ![call[c].thread] = call[c].versions]
  /\ Return(c)
  /\ UNCHANGED <<promoted, observed, opened, diagnosis>>

\* Faulty: what any investigation found may be opened.
may_open_unkeyed(t, v) == \E u \in Threads : v \in found[u]

may_open(t, v) == v \in found[t]

(***************************************************************************)
(* Opening a version: may_open is asked, then the row read and the         *)
(* citation recorded.                                                      *)
(***************************************************************************)
BeginOpen(c, t, v) ==
  /\ call[c].pc = "idle"
  /\ IsRunning(t)
  /\ may_open(t, v)
  /\ call' = [call EXCEPT ![c] = [Idle EXCEPT
                !.pc = "opening", !.thread = t, !.versions = {v}]]
  /\ UNCHANGED <<promoted, observed, found, opened, diagnosis>>

record_open(c) ==
  /\ call[c].pc = "opening"
  /\ opened' = [opened EXCEPT ![call[c].thread] = @ \cup call[c].versions]
  /\ Return(c)
  /\ UNCHANGED <<promoted, observed, found, diagnosis>>

Scope(t) == UNION {Text(v).categories : v \in opened[t]}

\* Faulty: what the answer cites is not held against what was opened.
IsSupported_unscoped(t, refs, citation) ==
  /\ refs \subseteq observed[t]
  /\ t \in Required => opened[t] # {} /\ citation # None
  /\ IF citation = None THEN opened[t] = {} ELSE citation \in opened[t]

(***************************************************************************)
(* The checks of investigate_with_runbooks and _capabilities, in one       *)
(* formula: any of them that fails raises.  (The latter also rejects an    *)
(* answer that proposes another capability than the one it cites.)         *)
(***************************************************************************)
IsSupported(t, refs, citation) ==
  /\ refs \subseteq observed[t]
  /\ opened[t] # {} => CategoriesOf(refs) \subseteq Scope(t)
  /\ t \in Required => opened[t] # {} /\ citation # None
  /\ IF citation = None THEN opened[t] = {} ELSE citation \in opened[t]

(***************************************************************************)
(* The model answers when its tools have returned.                         *)
(***************************************************************************)
Answer(t, refs, citation) ==
  /\ IsRunning(t)
  /\ refs # {}
  /\ \A c \in Calls : call[c].thread # t
  /\ diagnosis' = [diagnosis EXCEPT ![t] =
                     IF IsSupported(t, refs, citation)
                     THEN [refs |-> refs, citation |-> citation]
                     ELSE Rejected]
  /\ UNCHANGED <<promoted, observed, found, opened, call>>

Next ==
  \/ \E i \in Items, k \in Knowledge : promote(i, k)
  \/ \E t \in Threads :
       \/ \E e \in Evidence : observe(t, e)
       \/ \E c \in Calls : BeginSearch(c, t)
       \/ \E c \in Calls, v \in Versions : BeginOpen(c, t, v)
       \/ \E refs \in SUBSET Evidence, citation \in Versions \cup {None} :
            Answer(t, refs, citation)
  \/ \E c \in Calls : ReadCategories(c) \/ Query(c) \/ record_search(c)
                      \/ record_open(c)

Spec == Init /\ [][Next]_vars

-------------------------------------------------------------------------------
(* PROPERTIES                                                              *)

IsRelevant(t, v) ==
  /\ v[2] \in DOMAIN promoted[v[1]]
  /\ Text(v).signals \subseteq SignalsOf(observed[t])
  /\ Text(v).categories \subseteq CategoriesOf(observed[t])

(***************************************************************************)
(* However searches, observations and promotions overlap, an investigation *)
(* opens only promoted versions whose every signal and category it has     *)
(* itself observed: knowledge of one incident never reaches another that   *)
(* does not look like it.                                                  *)
(***************************************************************************)
OpenedIsRelevant == \A t \in Threads : \A v \in opened[t] : IsRelevant(t, v)

(***************************************************************************)
(* The invariant that the proof uses: what searches have read, found and   *)
(* recorded is relevant from the moment it is read, since evidence and     *)
(* versions are only ever added.                                           *)
(***************************************************************************)
CallIsRelevant(c) ==
  call[c].pc # "idle" =>
    /\ call[c].thread \in Threads
    /\ call[c].signals \subseteq SignalsOf(observed[call[c].thread])
    /\ call[c].categories \subseteq CategoriesOf(observed[call[c].thread])
    /\ \A v \in call[c].versions : IsRelevant(call[c].thread, v)

IInv ==
  /\ TypeOK
  /\ \A c \in Calls : CallIsRelevant(c)
  /\ \A t \in Threads : \A v \in found[t] \cup opened[t] : IsRelevant(t, v)

(***************************************************************************)
(* An accepted diagnosis rests on the investigation's own evidence, and    *)
(* once it opened something, on nothing outside what it opened; it names   *)
(* an opened version exactly if it opened one.                             *)
(***************************************************************************)
AcceptedRestsOnEvidence ==
  \A t \in Threads : Accepted(t) =>
    LET d == diagnosis[t]
    IN  /\ d.refs \subseteq observed[t]
        /\ (d.citation = None) <=> (opened[t] = {})
        /\ \A e \in d.refs : opened[t] = {} \/
             \E v \in opened[t] : /\ Category[e] \in Text(v).categories
                                  /\ Text(v).signals \subseteq
                                       SignalsOf(observed[t])

-------------------------------------------------------------------------------
(* EXPECTATIONS of the documents that the code does not meet: README.md    *)
(* says how each one fails; no run checks them.                            *)

(***************************************************************************)
(* The categories a promoted version requires are a boundary: a diagnosis  *)
(* that opened it and was accepted cites no other category.                *)
(***************************************************************************)
ScopeIsEnforced ==
  \A t \in Threads : Accepted(t) =>
    \A v \in opened[t] : CategoriesOf(diagnosis[t].refs) \subseteq Text(v).categories

===============================================================================
