------------------------------ MODULE AppConfig ------------------------------
(***************************************************************************)
(* The default room settings of apps (server/src/schema/load.rs): one file *)
(* per app, written by an operator, and a cache that a first use fills and *)
(* nothing empties.  Locking does the steps of a load, one access to the   *)
(* file or the cache at a time; both functions that load do the same ones. *)
(***************************************************************************)
EXTENDS Naturals

CONSTANTS
  Apps,             \* the app keys that clients name, registered or not
  Builtin,          \* those the program knows by itself
  Contents,         \* the settings that a file may say
  BuiltinSettings,  \* app_fallback for a builtin app
  NoLimits,         \* app_fallback for any other
  Unset,            \* no file, or one that does not parse; nothing cached
  MaxEdits          \* bound: how often an operator writes or deletes a file

Settings == Contents \cup {BuiltinSettings, NoLimits}

ASSUME BuiltinAssumption == Builtin \subseteq Apps
ASSUME UnsetAssumption == Unset \notin Settings
ASSUME FallbacksAssumption == NoLimits \notin Contents \cup {BuiltinSettings}
ASSUME EditsAssumption == MaxEdits \in Nat

VARIABLES
  file,   \* file[a]: what the file of app a says
  cache,  \* cache[a]: the settings kept for a
  said,   \* said[a]: all that the file of a has said since the server started
  edits   \* edits made

ConfigOK ==
  /\ file \in [Apps -> Contents \cup {Unset}]
  /\ cache \in [Apps -> Settings \cup {Unset}]
  /\ said \in [Apps -> SUBSET Contents]
  /\ edits \in 0 .. MaxEdits

ConfigInit ==
  /\ file \in [Apps -> Contents \cup {Unset}]
  /\ cache = [a \in Apps |-> Unset]
  /\ said = [a \in Apps |-> {file[a]} \ {Unset}]
  /\ edits = 0

\* An operator changes the file of a while the server runs.
EditFile(a) ==
  /\ edits < MaxEdits
  /\ \E content \in (Contents \cup {Unset}) \ {file[a]} :
       /\ file' = [file EXCEPT ![a] = content]
       /\ said' = [said EXCEPT ![a] = @ \cup ({content} \ {Unset})]
  /\ edits' = edits + 1
  /\ UNCHANGED cache

app_fallback(a) == IF a \in Builtin THEN BuiltinSettings ELSE NoLimits

\* What a load finds on a miss: a builtin app's file is not looked at.
Found(a) == IF a \in Builtin THEN app_fallback(a) ELSE file[a]

Remember(a, settings) ==
  /\ cache' = [cache EXCEPT ![a] = settings]
  /\ UNCHANGED <<file, said, edits>>

ConfigUnchanged == UNCHANGED <<file, cache, said, edits>>

\* Something made the server know app a: it is builtin, or has had a file.
Known(a) == a \in Builtin \/ said[a] # {}

\* What a load may give to a: the program's settings for a builtin app, whatever its
\* file says, else what the file has said.
Given(a) == IF a \in Builtin THEN {BuiltinSettings} ELSE said[a]

=============================================================================
