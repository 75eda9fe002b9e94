----------------------------- MODULE StateFiles -----------------------------
(***************************************************************************)
(* The encrypted files of the state directory and those who use them at    *)
(* the same time: imports (importctl.ProcessAndStore), the polls of an     *)
(* agent's loop (mobilebridge.runOnce) and ResetLearning.  Each of them    *)
(* opens stores of its own, so the mutexes of the stores order nothing     *)
(* between them.  os.WriteFile truncates before it writes: in between, and *)
(* after a crash in between, a file does not decrypt (Torn).               *)
(*                                                                         *)
(* A store is a set of profiles: an id, an endpoint, the template it       *)
(* refers to and the import that brought it.  The templates a bundle       *)
(* brings are one key, the bundle.  Of what was learnt only matters here   *)
(* whether it can be read; AdaptivePolicy models what it says.             *)
(***************************************************************************)
EXTENDS Naturals

CONSTANTS
    Importers,     \* threads and processes that import
    Bundles,       \* bundles that verify; each may be imported again
    ProfilesOf,    \* the profiles of a bundle: a set of [id, ep]
    RevokedBy,     \* the ids a bundle revokes
    HasTemplates,  \* the bundles that bring templates
    Torn,          \* content of a file that does not decrypt
    NoTemplate,    \* reference of a profile without a template of its own
    Tearing,       \* whether a crash may hit inside a write
    MaxImports,    \* bound: imports begun
    MaxCrashes     \* bound: crashes

ASSUME BoundsAssumption == MaxImports \in Nat /\ MaxCrashes \in Nat

VARIABLES
    profiles,    \* profiles.enc: a set of profiles, or Torn
    templates,   \* templates.enc: a set of keys, or Torn
    learned,     \* adaptive.enc: readable, or Torn
    import,      \* what each importer is doing
    poll,        \* what the agent's loop is doing
    imports, crashes,   \* how often each happened
    promised     \* history: ids imported, and not revoked, with success

files == <<profiles, templates, learned>>
counts == <<imports, crashes>>
vars == <<files, import, poll, counts, promised>>

Idle == [pc |-> "idle"]
IdlePoll == [pc |-> "idle", outcome |-> "none"]

(* Faulty variant: a profile refers to a template by its own id. *)
EntriesById(b, n) ==
    {[id |-> p.id, ep |-> p.ep, by |-> n, ref |-> p.id] : p \in ProfilesOf[b]}

Entries(b, n) ==
    {[id |-> p.id, ep |-> p.ep, by |-> n,
      ref |-> IF b \in HasTemplates THEN b ELSE NoTemplate] : p \in ProfilesOf[b]}

IdsOf(S) == {p.id : p \in S}

(* Same id and another endpoint, or same endpoint and another id. *)
Clash(p, q) == (p.id = q.id) # (p.ep = q.ep)

Consistent(S) == \A p, q \in S : ~Clash(p, q)

Init ==
    /\ profiles = {}
    /\ templates = {}
    /\ learned = "readable"
    /\ import = [i \in Importers |-> Idle]
    /\ poll = IdlePoll
    /\ imports = 0 /\ crashes = 0
    /\ promised = {}

-----------------------------------------------------------------------------
(* Imports *)

(* What a load gives an import: a file it cannot read counts as empty. *)
ProfilesSeen == IF profiles = Torn THEN {} ELSE profiles
TemplatesSeen == IF templates = Torn THEN {} ELSE templates

Kept(S, b) == {p \in S : p.id \notin RevokedBy[b]}

(* Faulty variant: endpoints that another id has already are not noticed. *)
ConflictsById(S, b) ==
    \E p \in Entries(b, 0), q \in Kept(S, b) \cup Entries(b, 0) :
      p.id = q.id /\ Clash(p, q)

(* A new profile that clashes with one kept, or with another of the bundle,
   fails the import before anything is written. *)
Conflicts(S, b) ==
    \E p \in Entries(b, 0), q \in Kept(S, b) \cup Entries(b, 0) : Clash(p, q)

(* Faulty variant: the bundle replaces the store. *)
MergedReplacing(S, b, n) == Entries(b, n)

(* The store after the import: what is kept, and every profile of the bundle,
   whether or not its id is there already. *)
Merged(S, b, n) == Kept(S, b) \cup Entries(b, n)

(* Load the profiles and merge the bundle into them. *)
ImportLoad(i, b) ==
    /\ import[i].pc = "idle"
    /\ imports < MaxImports
    /\ ~Conflicts(ProfilesSeen, b)
    /\ imports' = imports + 1
    /\ import' = [import EXCEPT ![i] =
         [pc |-> IF b \in HasTemplates THEN "templates" ELSE "profiles",
          bundle |-> b, store |-> Merged(ProfilesSeen, b, imports + 1),
          keys |-> {}, readable |-> profiles # Torn]]
    /\ UNCHANGED <<files, poll, crashes, promised>>

(* Faulty variant: the stored templates are not loaded first. *)
LoadNoTemplates(i) ==
    /\ import[i].pc = "templates"
    /\ import' = [import EXCEPT ![i].pc = "truncateTemplates",
                       ![i].keys = {import[i].bundle}]
    /\ UNCHANGED <<files, poll, counts, promised>>

LoadTemplates(i) ==
    /\ import[i].pc = "templates"
    /\ import' = [import EXCEPT ![i].pc = "truncateTemplates",
                       ![i].keys = TemplatesSeen \cup {import[i].bundle}]
    /\ UNCHANGED <<files, poll, counts, promised>>

TruncateTemplates(i) ==
    /\ import[i].pc = "truncateTemplates"
    /\ templates' = Torn
    /\ import' = [import EXCEPT ![i].pc = "writeTemplates"]
    /\ UNCHANGED <<profiles, learned, poll, counts, promised>>

(* Two files written over one another need not decrypt. *)
WriteTemplates(i) ==
    /\ import[i].pc = "writeTemplates"
    /\ \/ templates' = import[i].keys
       \/ templates # Torn /\ templates' = Torn
    /\ import' = [import EXCEPT ![i].pc = "profiles"]
    /\ UNCHANGED <<profiles, learned, poll, counts, promised>>

TruncateProfiles(i) ==
    /\ import[i].pc = "profiles"
    /\ profiles' = Torn
    /\ import' = [import EXCEPT ![i].pc = "write"]
    /\ UNCHANGED <<templates, learned, poll, counts, promised>>

WriteProfiles(i) ==
    /\ import[i].pc = "write"
    /\ \/ profiles' = import[i].store
       \/ profiles # Torn /\ profiles' = Torn
    /\ promised' = (promised \ RevokedBy[import[i].bundle])
                     \cup {p.id : p \in ProfilesOf[import[i].bundle]}
    /\ import' = [import EXCEPT ![i] = Idle]
    /\ UNCHANGED <<templates, learned, poll, counts>>

-----------------------------------------------------------------------------
(* Polls and resets *)

(* A poll loads the profiles, then what was learnt; without either it reports
   an error and ends. *)
PollLoad ==
    /\ poll.pc = "idle"
    /\ poll' = IF profiles \in {Torn, {}} \/ learned = Torn
               THEN [pc |-> "idle", outcome |-> "error"]
               ELSE [pc |-> "truncate", outcome |-> "selected"]
    /\ UNCHANGED <<files, import, counts, promised>>

(* Whatever the attempt's outcome, the poll saves what it loaded and what it
   learnt. *)
PollTruncate ==
    /\ poll.pc = "truncate"
    /\ learned' = Torn
    /\ poll' = [poll EXCEPT !.pc = "write"]
    /\ UNCHANGED <<profiles, templates, import, counts, promised>>

(* Written, or removed by a reset since it was opened. *)
PollWrite ==
    /\ poll.pc = "write"
    /\ learned' = "readable"
    /\ poll' = [poll EXCEPT !.pc = "idle"]
    /\ UNCHANGED <<profiles, templates, import, counts, promised>>

(* AdaptiveStore.Reset removes the file, and what is not there reads as
   nothing learnt. *)
ResetLearning ==
    /\ learned' = "readable"
    /\ UNCHANGED <<profiles, templates, import, poll, counts, promised>>

(* Processes end: nothing in their memory survives, and a write begun is torn.
   An importer may be a process of its own or a thread beside the loop. *)
Writing == {"writeTemplates", "write"}

Crash ==
    /\ crashes < MaxCrashes
    /\ crashes' = crashes + 1
    /\ \E dead \in SUBSET Importers, loop \in BOOLEAN :
         /\ Tearing \/ /\ \A i \in dead : import[i].pc \notin Writing
                       /\ loop => poll.pc \notin Writing
         /\ import' = [i \in Importers |-> IF i \in dead THEN Idle ELSE import[i]]
         /\ poll' = IF loop THEN IdlePoll ELSE poll
    /\ UNCHANGED <<files, imports, promised>>

Next ==
    \/ \E i \in Importers, b \in Bundles : ImportLoad(i, b)
    \/ \E i \in Importers :
         \/ LoadTemplates(i) \/ TruncateTemplates(i) \/ WriteTemplates(i)
         \/ TruncateProfiles(i) \/ WriteProfiles(i)
    \/ PollLoad \/ PollTruncate \/ PollWrite \/ ResetLearning \/ Crash

Spec == Init /\ [][Next]_vars

-----------------------------------------------------------------------------
Profile ==
    [id : UNION {IdsOf(ProfilesOf[b]) : b \in Bundles},
     ep : UNION {{p.ep : p \in ProfilesOf[b]} : b \in Bundles},
     by : 1 .. MaxImports,
     ref : Bundles \cup {NoTemplate}]

Stage == {"templates", "truncateTemplates", "writeTemplates", "profiles", "write"}

Import ==
    [pc : Stage, bundle : Bundles, store : SUBSET Profile,
     keys : SUBSET Bundles, readable : BOOLEAN]

(* What the files, the imports and the poll can hold: each file torn or of its
   type, each import one whose next step is defined. *)
TypeOK ==
    /\ profiles = Torn \/ profiles \subseteq Profile
    /\ templates = Torn \/ templates \subseteq Bundles
    /\ learned \in {"readable", Torn}
    /\ import \in [Importers -> Import \cup {Idle}]
    /\ poll \in [pc : {"idle", "truncate", "write"},
                outcome : {"none", "error", "selected"}]
    /\ imports \in 0 .. MaxImports /\ crashes \in 0 .. MaxCrashes

(* Whatever imports run at once and wherever the process dies, a store that
   decrypts never names two endpoints by one id or one endpoint by two ids:
   the conflict checks of import.go lines 150 to 166 compare with the store
   that is written back, not with the one on disk by then. *)
StoreConsistent ==
    profiles # Torn => Consistent(profiles)

(* One import at a time and no torn write: what was imported with success and
   not revoked since is in the store (import.go lines 131 to 138). *)
NothingLost ==
    \A i \in Importers :
      import[i].pc # "write" => promised \subseteq IdsOf(ProfilesSeen)

(* One import at a time and no torn write, a crash between the two files
   included: every profile in the store has its template in the store, which
   import.go writes first (lines 203 and 208). *)
TemplatesComeFirst ==
    \A i \in Importers :
      import[i].pc \notin Writing =>
        {p.ref : p \in profiles} \ {NoTemplate} \subseteq templates

(* security/checklist.md: explicit failures instead of silent fallback.  An
   import that could not read the store does not overwrite it. *)
UnreadableNotOverwritten ==
    \A i \in Importers : import[i].pc = "write" => import[i].readable
=============================================================================
