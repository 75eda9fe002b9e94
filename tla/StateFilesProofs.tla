-------------------------- MODULE StateFilesProofs --------------------------
(***************************************************************************)
(* Proofs about StateFiles for any importers, bundles and bounds.          *)
(***************************************************************************)
EXTENDS StateFiles, TLAPS

ImportStep(i) ==
    \/ \E b \in Bundles : ImportLoad(i, b)
    \/ LoadTemplates(i) \/ TruncateTemplates(i) \/ WriteTemplates(i)
    \/ TruncateProfiles(i) \/ WriteProfiles(i)

LoopStep == PollLoad \/ PollTruncate \/ PollWrite \/ ResetLearning

LEMMA NextIsAStep == Next => (\E i \in Importers : ImportStep(i)) \/ LoopStep \/ Crash
BY DEF Next, ImportStep, LoopStep

-----------------------------------------------------------------------------
(* Merging *)

LEMMA EntriesAreProfiles ==
    ASSUME NEW b \in Bundles, NEW n \in 1 .. MaxImports
    PROVE  Entries(b, n) \subseteq Profile
<1> SUFFICES ASSUME NEW p \in ProfilesOf[b]
             PROVE  /\ p.id \in UNION {IdsOf(ProfilesOf[a]) : a \in Bundles}
                    /\ p.ep \in UNION {{q.ep : q \in ProfilesOf[a]} : a \in Bundles}
  BY DEF Entries, Profile
<1>1. p.id \in IdsOf(ProfilesOf[b])
  BY DEF IdsOf
<1>2. p.ep \in {q.ep : q \in ProfilesOf[b]}
  OBVIOUS
<1>3. QED
  BY <1>1, <1>2

(* What ProcessAndStore writes back is consistent if what it loaded was and
   the bundle passed the conflict check. *)
LEMMA MergeKeepsConsistent ==
    ASSUME NEW S, NEW b, NEW n, Consistent(S), ~Conflicts(S, b)
    PROVE  Consistent(Merged(S, b, n))
<1> SUFFICES ASSUME NEW p \in Merged(S, b, n), NEW q \in Merged(S, b, n)
             PROVE  ~Clash(p, q)
  BY DEF Consistent
<1>1. ASSUME NEW r \in Entries(b, n)
      PROVE  \E t \in Entries(b, 0) : t.id = r.id /\ t.ep = r.ep
  <2> DEFINE E(e, m) ==
        [id |-> e.id, ep |-> e.ep, by |-> m,
         ref |-> IF b \in HasTemplates THEN b ELSE NoTemplate]
  <2>1. PICK e \in ProfilesOf[b] : r = E(e, n)
    BY DEF Entries
  <2>2. E(e, 0) \in Entries(b, 0)
    BY DEF Entries
  <2>3. QED
    BY <2>1, <2>2
<1>2. \A t \in Entries(b, 0), r \in Merged(S, b, n) : ~Clash(t, r)
  BY <1>1 DEF Conflicts, Merged, Clash
<1>3. \A r \in Entries(b, n), t \in Merged(S, b, n) : ~Clash(r, t) /\ ~Clash(t, r)
  BY <1>1, <1>2 DEF Clash
<1>4. \A r, t \in Kept(S, b) : ~Clash(r, t)
  BY DEF Kept, Consistent
<1>5. QED
  BY <1>3, <1>4 DEF Merged

-----------------------------------------------------------------------------
(* Type correctness *)

(* The fields of an import in progress, one by one. *)
LEMMA ImportRecord ==
    ASSUME NEW m \in Import
    PROVE  /\ m.pc \in Stage /\ m.bundle \in Bundles
           /\ m.store \subseteq Profile /\ m.keys \subseteq Bundles
           /\ \A pc \in Stage : [m EXCEPT !.pc = pc] \in Import
           /\ \A pc \in Stage, K \in SUBSET Bundles :
                [m EXCEPT !.pc = pc, !.keys = K] \in Import
BY DEF Import

LEMMA ImportInProgress ==
    ASSUME TypeOK, NEW i \in Importers, import[i].pc \in Stage
    PROVE  import[i] \in Import
BY DEF TypeOK, Idle, Stage

LEMMA InitTypeOK == Init => TypeOK
BY BoundsAssumption DEF Init, TypeOK, IdlePoll

LEMMA ImportTypeOK ==
    ASSUME TypeOK, NEW i \in Importers, ImportStep(i)
    PROVE  TypeOK'
<1> USE DEF TypeOK
<1>1. ASSUME NEW b \in Bundles, ImportLoad(i, b) PROVE TypeOK'
  <2>1. imports + 1 \in 1 .. MaxImports /\ imports' = imports + 1
    BY <1>1, BoundsAssumption DEF ImportLoad
  <2>2. Merged(ProfilesSeen, b, imports + 1) \subseteq Profile
    BY <2>1, EntriesAreProfiles DEF Merged, Kept, ProfilesSeen
  <2> DEFINE M == [pc |-> IF b \in HasTemplates THEN "templates" ELSE "profiles",
                   bundle |-> b, store |-> Merged(ProfilesSeen, b, imports + 1),
                   keys |-> {}, readable |-> profiles # Torn]
  <2>3. M \in Import
    BY <2>2 DEF Import, Stage
  <2>4. import' = [import EXCEPT ![i] = M]
    BY <1>1 DEF ImportLoad
  <2> HIDE DEF M
  <2>5. import' \in [Importers -> Import \cup {Idle}]
    BY <2>3, <2>4
  <2>6. QED
    BY <1>1, <2>1, <2>5, BoundsAssumption DEF ImportLoad, files
<1>2. ASSUME LoadTemplates(i) PROVE TypeOK'
  <2>1. import[i] \in Import
    BY <1>2, ImportInProgress DEF LoadTemplates, Stage
  <2>2. TemplatesSeen \cup {import[i].bundle} \in SUBSET Bundles
    BY <2>1, ImportRecord DEF TemplatesSeen
  <2>3. import' \in [Importers -> Import \cup {Idle}]
    BY <1>2, <2>1, <2>2, ImportRecord DEF LoadTemplates, Stage
  <2>4. QED
    BY <1>2, <2>3 DEF LoadTemplates, files, counts
<1>3. ASSUME TruncateTemplates(i) PROVE TypeOK'
  <2>1. import[i] \in Import
    BY <1>3, ImportInProgress DEF TruncateTemplates, Stage
  <2>2. import' \in [Importers -> Import \cup {Idle}]
    BY <1>3, <2>1, ImportRecord DEF TruncateTemplates, Stage
  <2>3. QED
    BY <1>3, <2>2 DEF TruncateTemplates, counts
<1>4. ASSUME WriteTemplates(i) PROVE TypeOK'
  <2>1. import[i] \in Import
    BY <1>4, ImportInProgress DEF WriteTemplates, Stage
  <2>2. import' \in [Importers -> Import \cup {Idle}]
    BY <1>4, <2>1, ImportRecord DEF WriteTemplates, Stage
  <2>3. QED
    BY <1>4, <2>1, <2>2, ImportRecord DEF WriteTemplates, counts
<1>5. ASSUME TruncateProfiles(i) PROVE TypeOK'
  <2>1. import[i] \in Import
    BY <1>5, ImportInProgress DEF TruncateProfiles, Stage
  <2>2. import' \in [Importers -> Import \cup {Idle}]
    BY <1>5, <2>1, ImportRecord DEF TruncateProfiles, Stage
  <2>3. QED
    BY <1>5, <2>2 DEF TruncateProfiles, counts
<1>6. ASSUME WriteProfiles(i) PROVE TypeOK'
  <2>1. import[i] \in Import
    BY <1>6, ImportInProgress DEF WriteProfiles, Stage
  <2>2. QED
    BY <1>6, <2>1, ImportRecord DEF WriteProfiles, counts
<1>7. QED
  BY <1>1, <1>2, <1>3, <1>4, <1>5, <1>6 DEF ImportStep

LEMMA StepTypeOK == TypeOK /\ [Next]_vars => TypeOK'
<1> SUFFICES ASSUME TypeOK, [Next]_vars PROVE TypeOK'
  OBVIOUS
<1>1. CASE LoopStep
  BY <1>1 DEF LoopStep, PollLoad, PollTruncate, PollWrite, ResetLearning,
              TypeOK, files, counts
<1>2. CASE Crash
  BY <1>2, BoundsAssumption DEF Crash, TypeOK, files, IdlePoll
<1>3. CASE UNCHANGED vars
  BY <1>3 DEF TypeOK, vars, files, counts
<1>4. QED
  BY <1>1, <1>2, <1>3, ImportTypeOK, NextIsAStep

(* Every variable keeps its type: profiles.enc, templates.enc and what each
   import holds in memory, for any importers, bundles and bounds. *)
THEOREM TypeCorrect == Spec => []TypeOK
BY InitTypeOK, StepTypeOK, PTL DEF Spec

-----------------------------------------------------------------------------
(* Consistency: the store on disk, and what each import is about to write. *)
StoresConsistent ==
    /\ StoreConsistent
    /\ \A i \in Importers :
         import[i].pc # "idle" => Consistent(import[i].store)

LEMMA InitStoresConsistent == Init => StoresConsistent
BY DEF Init, StoresConsistent, StoreConsistent, Consistent, Idle

LEMMA ImportKeepsStoresConsistent ==
    ASSUME TypeOK, StoresConsistent, NEW i \in Importers, ImportStep(i)
    PROVE  StoresConsistent'
<1> USE DEF StoresConsistent, StoreConsistent
<1>0. \A j \in Importers : import[j] \in Import \cup {Idle}
  BY DEF TypeOK
<1>1. ASSUME NEW b \in Bundles, ImportLoad(i, b) PROVE StoresConsistent'
  <2>1. Consistent(ProfilesSeen)
    BY DEF ProfilesSeen, Consistent
  <2>2. Consistent(Merged(ProfilesSeen, b, imports + 1))
    BY <1>1, <2>1, MergeKeepsConsistent DEF ImportLoad
  <2>3. /\ import'[i].store = Merged(ProfilesSeen, b, imports + 1)
        /\ \A j \in Importers \ {i} : import'[j] = import[j]
    BY <1>1 DEF ImportLoad, TypeOK
  <2>4. QED
    BY <1>1, <2>2, <2>3 DEF ImportLoad, files
<1>2. CASE LoadTemplates(i)
  BY <1>2 DEF LoadTemplates, files, TypeOK
<1>3. CASE TruncateTemplates(i)
  BY <1>3 DEF TruncateTemplates, TypeOK
<1>4. CASE WriteTemplates(i)
  BY <1>4 DEF WriteTemplates, TypeOK
<1>5. CASE TruncateProfiles(i)
  BY <1>5 DEF TruncateProfiles, TypeOK
<1>6. CASE WriteProfiles(i)
  <2>1. profiles' \in {import[i].store, Torn}
    BY <1>6 DEF WriteProfiles
  <2>2. \A j \in Importers : import'[j] = import[j] \/ import'[j].pc = "idle"
    BY <1>6 DEF WriteProfiles, TypeOK, Idle
  <2>3. QED
    BY <1>6, <2>1, <2>2 DEF WriteProfiles
<1>7. QED
  BY <1>1, <1>2, <1>3, <1>4, <1>5, <1>6 DEF ImportStep

LEMMA StepStoresConsistent ==
    TypeOK /\ StoresConsistent /\ [Next]_vars => StoresConsistent'
<1> SUFFICES ASSUME TypeOK, StoresConsistent, [Next]_vars PROVE StoresConsistent'
  OBVIOUS
<1>1. CASE LoopStep
  BY <1>1 DEF LoopStep, PollLoad, PollTruncate, PollWrite, ResetLearning,
              StoresConsistent, StoreConsistent, files
<1>2. CASE Crash
  BY <1>2 DEF Crash, StoresConsistent, StoreConsistent, files, Idle
<1>3. CASE UNCHANGED vars
  BY <1>3 DEF StoresConsistent, StoreConsistent, vars, files
<1>4. QED
  BY <1>1, <1>2, <1>3, ImportKeepsStoresConsistent, NextIsAStep

(* import.go lines 150 to 166: whatever imports run at once and wherever their
   processes die, a profile store that decrypts is consistent. *)
THEOREM StoreStaysConsistent == Spec => []StoreConsistent
<1>1. StoresConsistent => StoreConsistent
  BY DEF StoresConsistent
<1>2. QED
  BY <1>1, InitStoresConsistent, StepStoresConsistent, TypeCorrect, PTL DEF Spec

-----------------------------------------------------------------------------
(* One import at a time, and no write that is torn: then a file is torn only
   while the import writes it, and what is stored, or about to be, covers what
   was promised and refers only to templates that are stored before it.  (What
   does not decrypt must not be mistaken for the content of a store.) *)
Alone ==
    /\ \E c : Importers = {c}
    /\ ~Tearing
    /\ Torn \notin SUBSET Profile
    /\ Torn \notin SUBSET Bundles

Refs(S) == {p.ref : p \in S} \ {NoTemplate}

Unharmed(m) ==
    /\ templates = Torn <=> m.pc = "writeTemplates"
    /\ profiles = Torn <=> m.pc = "write"

KeptPromise(m) ==
    /\ m.pc # "write" => promised \subseteq IdsOf(profiles)
    /\ m.pc # "idle" =>
         (promised \ RevokedBy[m.bundle]) \cup IdsOf(ProfilesOf[m.bundle])
           \subseteq IdsOf(m.store)

Templated(m) ==
    /\ m.pc \notin Writing => Refs(profiles) \subseteq templates
    /\ m.pc = "templates" =>
         Refs(m.store) \subseteq templates \cup {m.bundle}
    /\ m.pc \in {"truncateTemplates", "writeTemplates"} =>
         /\ Refs(m.store) \subseteq m.keys
         /\ Refs(profiles) \subseteq m.keys
    /\ m.pc \in {"profiles", "write"} => Refs(m.store) \subseteq templates

Covered ==
    \A i \in Importers :
      Unharmed(import[i]) /\ KeptPromise(import[i]) /\ Templated(import[i])

LEMMA InitCovered == ASSUME Alone PROVE Init => Covered
BY DEF Alone, Init, Covered, Unharmed, KeptPromise, Templated, Refs, IdsOf, Idle,
       Writing

LEMMA EntriesOf ==
    ASSUME NEW b, NEW n
    PROVE  /\ IdsOf(Entries(b, n)) = IdsOf(ProfilesOf[b])
           /\ Refs(Entries(b, n)) \subseteq {b}
           /\ b \notin HasTemplates => Refs(Entries(b, n)) = {}
<1> DEFINE E(e) ==
      [id |-> e.id, ep |-> e.ep, by |-> n,
       ref |-> IF b \in HasTemplates THEN b ELSE NoTemplate]
<1>1. Entries(b, n) = {E(e) : e \in ProfilesOf[b]}
  BY DEF Entries
<1>2. \A e \in ProfilesOf[b] : E(e) \in Entries(b, n) /\ E(e).id = e.id
  BY <1>1
<1>3. \A r \in Entries(b, n) : \E e \in ProfilesOf[b] : r = E(e)
  BY <1>1
<1>4. \A r \in Entries(b, n) :
        /\ r.id \in IdsOf(ProfilesOf[b])
        /\ r.ref = IF b \in HasTemplates THEN b ELSE NoTemplate
  BY <1>3 DEF IdsOf
<1>5. QED
  BY <1>2, <1>4 DEF IdsOf, Refs

(* A merge keeps every id that is not revoked and brings the bundle's. *)
LEMMA MergeCovers ==
    ASSUME NEW S, NEW b, NEW n
    PROVE  /\ (IdsOf(S) \ RevokedBy[b]) \cup IdsOf(ProfilesOf[b])
                \subseteq IdsOf(Merged(S, b, n))
           /\ Refs(Merged(S, b, n)) \subseteq Refs(S) \cup {b}
           /\ b \notin HasTemplates => Refs(Merged(S, b, n)) \subseteq Refs(S)
<1>1. IdsOf(S) \ RevokedBy[b] \subseteq IdsOf(Kept(S, b))
  BY DEF IdsOf, Kept
<1>2. IdsOf(Merged(S, b, n)) = IdsOf(Kept(S, b)) \cup IdsOf(Entries(b, n))
  BY DEF IdsOf, Merged
<1>3. Refs(Merged(S, b, n)) = Refs(Kept(S, b)) \cup Refs(Entries(b, n))
  BY DEF Refs, Merged
<1>4. Refs(Kept(S, b)) \subseteq Refs(S)
  BY DEF Refs, Kept
<1>5. QED
  BY <1>1, <1>2, <1>3, <1>4, EntriesOf

LEMMA ImportKeepsCovered ==
    ASSUME Alone, TypeOK, Covered, NEW i \in Importers, ImportStep(i)
    PROVE  Covered'
<1> DEFINE m == import[i]
<1> USE DEF Writing
<1>1. /\ Unharmed(m) /\ KeptPromise(m) /\ Templated(m)
      /\ import \in [Importers -> Import \cup {Idle}]
  BY DEF Covered, TypeOK
<1>2. SUFFICES Unharmed(m)' /\ KeptPromise(m)' /\ Templated(m)'
  BY DEF Alone, Covered
<1>3. ASSUME NEW b \in Bundles, ImportLoad(i, b)
      PROVE  Unharmed(m)' /\ KeptPromise(m)' /\ Templated(m)'
  <2>1. /\ m.pc = "idle" /\ ProfilesSeen = profiles
        /\ m' = [pc |-> IF b \in HasTemplates THEN "templates" ELSE "profiles",
                 bundle |-> b, store |-> Merged(profiles, b, imports + 1),
                 keys |-> {}, readable |-> profiles # Torn]
        /\ UNCHANGED <<profiles, templates, promised>>
    BY <1>1, <1>3 DEF ImportLoad, ProfilesSeen, Unharmed, files
  <2>2. Unharmed(m)'
    BY <1>1, <2>1 DEF Unharmed
  <2>3. KeptPromise(m)'
    BY <1>1, <2>1, MergeCovers DEF KeptPromise
  <2>4. Templated(m)'
    BY <1>1, <2>1, MergeCovers DEF Templated
  <2>5. QED
    BY <2>2, <2>3, <2>4
<1>4. CASE LoadTemplates(i)
  <2>1. /\ m.pc = "templates" /\ TemplatesSeen = templates
        /\ m' = [m EXCEPT !.pc = "truncateTemplates",
                          !.keys = templates \cup {m.bundle}]
        /\ UNCHANGED <<profiles, templates, promised>>
    BY <1>1, <1>4 DEF LoadTemplates, TemplatesSeen, Unharmed, files
  <2>2. m \in Import
    BY <2>1, ImportInProgress DEF Stage
  <2>3. /\ m'.pc = "truncateTemplates" /\ m'.store = m.store
        /\ m'.bundle = m.bundle /\ m'.keys = templates \cup {m.bundle}
    BY <2>1, <2>2 DEF Import
  <2>4. QED
    BY <1>1, <2>1, <2>3 DEF Unharmed, KeptPromise, Templated
<1>5. CASE TruncateTemplates(i) \/ WriteTemplates(i) \/ TruncateProfiles(i)
  <2>1. m \in Import
    BY <1>5, ImportInProgress
       DEF TruncateTemplates, WriteTemplates, TruncateProfiles, Stage
  <2>2. /\ m'.store = m.store /\ m'.bundle = m.bundle /\ m'.keys = m.keys
        /\ promised' = promised
    BY <1>1, <1>5, <2>1
       DEF TruncateTemplates, WriteTemplates, TruncateProfiles, Import
  <2>3. CASE TruncateTemplates(i)
    <3>1. /\ m.pc = "truncateTemplates" /\ m'.pc = "writeTemplates"
          /\ templates' = Torn /\ profiles' = profiles
      BY <1>1, <2>1, <2>3 DEF TruncateTemplates, Import
    <3>2. QED
      BY <1>1, <2>2, <3>1 DEF Unharmed, KeptPromise, Templated
  <2>4. CASE WriteTemplates(i)
    <3>1. /\ m.pc = "writeTemplates" /\ m'.pc = "profiles"
          /\ templates' = m.keys /\ profiles' = profiles
      BY <1>1, <2>1, <2>4 DEF WriteTemplates, Import, Unharmed
    <3>2. m.keys # Torn
      BY <2>1, ImportRecord DEF Alone
    <3>3. QED
      BY <1>1, <2>2, <3>1, <3>2 DEF Unharmed, KeptPromise, Templated
  <2>5. CASE TruncateProfiles(i)
    <3>1. /\ m.pc = "profiles" /\ m'.pc = "write"
          /\ templates' = templates /\ profiles' = Torn
      BY <1>1, <2>1, <2>5 DEF TruncateProfiles, Import
    <3>2. QED
      BY <1>1, <2>2, <3>1 DEF Unharmed, KeptPromise, Templated
  <2>6. QED
    BY <1>5, <2>3, <2>4, <2>5
<1>6. CASE WriteProfiles(i)
  <2>1. m.pc = "write" /\ m'.pc = "idle"
    BY <1>1, <1>6 DEF WriteProfiles, Idle
  <2>2. m \in Import
    BY <2>1, ImportInProgress DEF Stage
  <2>3. /\ profiles' = m.store /\ templates' = templates
        /\ promised' = (promised \ RevokedBy[m.bundle])
                         \cup IdsOf(ProfilesOf[m.bundle])
    BY <1>1, <1>6, <2>1 DEF WriteProfiles, Unharmed, IdsOf
  <2>4. m.store # Torn
    BY <2>2, ImportRecord DEF Alone
  <2>5. QED
    BY <1>1, <2>1, <2>3, <2>4 DEF Unharmed, KeptPromise, Templated
<1>7. QED
  BY <1>3, <1>4, <1>5, <1>6 DEF ImportStep

LEMMA StepCovered ==
    ASSUME Alone
    PROVE  TypeOK /\ Covered /\ [Next]_vars => Covered'
<1> SUFFICES ASSUME TypeOK, Covered, [Next]_vars PROVE Covered'
  OBVIOUS
<1>1. CASE LoopStep \/ UNCHANGED vars
  <2>1. UNCHANGED <<profiles, templates, import, promised>>
    BY <1>1 DEF LoopStep, PollLoad, PollTruncate, PollWrite, ResetLearning,
                vars, files
  <2>2. QED
    BY <2>1 DEF Covered, Unharmed, KeptPromise, Templated
<1>2. CASE Crash
  <2>1. UNCHANGED <<profiles, templates, promised>>
    BY <1>2 DEF Crash, files
  <2>2. SUFFICES ASSUME NEW i \in Importers
                 PROVE  /\ Unharmed(import[i])' /\ KeptPromise(import[i])'
                        /\ Templated(import[i])'
    BY DEF Covered
  <2>3. \/ import'[i] = import[i]
        \/ import[i].pc \notin Writing /\ import'[i] = Idle
    BY <1>2 DEF Crash, Alone
  <2>4. QED
    BY <2>1, <2>3 DEF Covered, Unharmed, KeptPromise, Templated, Idle, Writing
<1>3. QED
  BY <1>1, <1>2, ImportKeepsCovered, NextIsAStep

LEMMA AlwaysCovered == ASSUME Alone PROVE Spec => []Covered
BY InitCovered, StepCovered, TypeCorrect, PTL DEF Spec

(* import.go lines 131 to 138: imports one at a time lose no profile that an
   earlier one stored, unless it is revoked, wherever one of them dies. *)
THEOREM NothingIsLost == ASSUME Alone PROVE Spec => []NothingLost
<1>1. Covered => NothingLost
  BY DEF Covered, Unharmed, KeptPromise, NothingLost, ProfilesSeen
<1>2. QED
  BY <1>1, AlwaysCovered, PTL

(* import.go lines 203 and 208: imports one at a time leave no profile without
   its template, although templates and profiles are written one after the
   other and the process may end in between. *)
THEOREM TemplatesAreFirst == ASSUME Alone PROVE Spec => []TemplatesComeFirst
<1>1. Covered => TemplatesComeFirst
  BY DEF Covered, Templated, TemplatesComeFirst, Refs
<1>2. QED
  BY <1>1, AlwaysCovered, PTL
=============================================================================
