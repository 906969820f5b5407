--------------------------- MODULE RulesetLoader ---------------------------
(***************************************************************************)
(* RulesetLoader of orchestrator/src/ruleset-loader.ts: loadVersion, which  *)
(* the worker pool and the ruleset routes call concurrently, over a cache   *)
(* that is looked up before the load and filled after it.                   *)
(*                                                                         *)
(* An object loaded is named after the call that loaded it: an embedded     *)
(* ruleset gets a temporary file of its own at every load.  Requests for    *)
(* rulesets or versions that are not configured change nothing and are left *)
(* out; the list of rulesets (GET /rulesets) is one call for each.          *)
(***************************************************************************)
EXTENDS Naturals, FiniteSets

CONSTANTS
    Calls,          \* calls of loadVersion
    Rulesets,       \* configured "name:version"
    Embedded,       \* those with origin 'embedded'
    Broken,         \* those that do not bundle, or lack the export
    EnableCache,
    MaxClears,      \* bound: clearCache
    NoCall          \* no object

ASSUME RulesetLoaderAssumption ==
    /\ Embedded \subseteq Rulesets /\ Broken \subseteq Rulesets
    /\ EnableCache \in BOOLEAN
    /\ MaxClears \in Nat
    /\ NoCall \notin Calls

VARIABLES
    cache,      \* ruleset to the object it has in the cache
    want,       \* the ruleset of each call
    step,       \* "idle", "loading", "answered", "failed"
    got,        \* the object a call was answered with
    shims,      \* calls whose temporary file is on disk
    clears,     \* clearCache so far
    recent,     \* calls answered since the last clearCache (history)
    served      \* calls that began when one of their ruleset was recent (history)

loaderVars == <<cache, want, step, got, shims, clears, recent, served>>

Init ==
    /\ cache = [r \in Rulesets |-> NoCall]
    /\ want \in [Calls -> Rulesets]
    /\ step = [c \in Calls |-> "idle"]
    /\ got = [c \in Calls |-> NoCall]
    /\ shims = {} /\ clears = 0 /\ recent = {} /\ served = {}

Answer(c, object) ==
    /\ step' = [step EXCEPT ![c] = "answered"]
    /\ got' = [got EXCEPT ![c] = object]
    /\ recent' = recent \cup {c}

\* loadVersion up to its first await.
LoadVersion(c) ==
    LET r == want[c] IN
    /\ step[c] = "idle"
    /\ served' = IF \E b \in recent : want[b] = r THEN served \cup {c} ELSE served
    /\ \/ EnableCache /\ cache[r] # NoCall /\ Answer(c, cache[r])
       \/ /\ ~EnableCache \/ cache[r] = NoCall
          /\ step' = [step EXCEPT ![c] = "loading"]
          /\ UNCHANGED <<got, recent>>
    /\ UNCHANGED <<cache, want, shims, clears>>

\* Mutant: the call removes its file when it ends.
ShimsUntilAnswered(c) == shims

\* loadRulesetVersion writes a file that extends the built-in ruleset, and
\* leaves it for the threads.
Shims(c) == IF want[c] \in Embedded THEN shims \cup {c} ELSE shims

\* loadRulesetVersion has loaded; the cache takes the object whatever it holds.
Loaded(c) ==
    /\ step[c] = "loading" /\ want[c] \notin Broken
    /\ shims' = Shims(c)
    /\ cache' = IF EnableCache THEN [cache EXCEPT ![want[c]] = c] ELSE cache
    /\ Answer(c, c)
    /\ UNCHANGED <<want, clears, served>>

\* It throws after the file is written; nobody removes the file.
LoadFails(c) ==
    /\ step[c] = "loading" /\ want[c] \in Broken
    /\ shims' = Shims(c)
    /\ step' = [step EXCEPT ![c] = "failed"]
    /\ UNCHANGED <<cache, want, got, clears, recent, served>>

ClearCache ==
    /\ clears < MaxClears
    /\ clears' = clears + 1
    /\ cache' = [r \in Rulesets |-> NoCall]
    /\ recent' = {}
    /\ UNCHANGED <<want, step, got, shims, served>>

Next == (\E c \in Calls : LoadVersion(c) \/ Loaded(c) \/ LoadFails(c)) \/ ClearCache

Spec == Init /\ [][Next]_loaderVars

\* The file of an object is there: an embedded ruleset's own, or the configured one.
PathExists(object) == want[object] \notin Embedded \/ object \in shims
============================================================================
