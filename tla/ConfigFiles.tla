---------------------------- MODULE ConfigFiles -----------------------------
(***************************************************************************)
(* The configuration files of a node (src/src/config.rs): the unified      *)
(* file, the two files of the former programs, and what a start makes of   *)
(* them.  Startup composes it with the program binary and the process.     *)
(*                                                                         *)
(* A file is written whole: save() writes a private temporary file beside  *)
(* it, syncs and renames it, so what a crash or an error leaves is the old *)
(* content or the new one (and perhaps the temporary file, which nothing   *)
(* reads).  Abstracted: what a role's section says, but whose it is; TOML, *)
(* but which program versions can read a file (deny_unknown_fields).       *)
(***************************************************************************)
EXTENDS Naturals

CONSTANTS
  Versions,    \* program versions
  Schema,      \* the fields a version knows, as a rank: Schema[v]
  Settings,    \* what a user can have set for a role
  NoRole       \* the role is not configured

Names == {"unified", "server", "client"}

Default == "default"

RoleNames == {"expose", "access"}

\* The sections of a configuration.
Roles == [RoleNames -> Settings \cup {Default, NoRole}]

Absent == [kind |-> "absent"]
Empty == [kind |-> "empty"]
Bad == [kind |-> "bad"]
Unified(r, v) == [kind |-> "unified", roles |-> r, by |-> v]
Legacy(d) == [kind |-> "legacy", data |-> d]

Content ==
  {Absent, Empty, Bad}
  \cup [kind: {"unified"}, roles: Roles, by: Versions]
  \cup [kind: {"legacy"}, data: Settings]

ASSUME ConfigAssumption ==
  /\ Versions \subseteq Nat \ {0}
  /\ Schema \in [Versions -> Nat]
  /\ NoRole \notin Settings \cup {Default} /\ Default \notin Settings

VARIABLES
  files,   \* the content of each file of the configuration directory
  config,  \* the configuration the process has in memory
  path,    \* where it saves it
  todo,    \* former files it still has to remove
  listed   \* access sections listed for a save that is not over

configVars == <<files, config, path, todo, listed>>

NoRoles == [r \in RoleNames |-> NoRole]

DefaultNode == [r \in RoleNames |-> Default]

-----------------------------------------------------------------------------
(* What a start reads *)

\* Config::validate.
Valid(r) == \E n \in RoleNames : r[n] # NoRole

\* A version refuses the fields a later one has added.
Readable(c, v) == c.kind = "unified" /\ Schema[c.by] <= Schema[v]

\* infer_legacy_role.
RoleOf(name) == IF name = "server" THEN "expose" ELSE "access"

\* load_or_default of a former file.
SectionOf(c) == IF c.kind = "empty" THEN Default ELSE c.data

\* The configuration the former files of S make together.
Merged(S) ==
  [r \in RoleNames |->
     IF \E n \in S : RoleOf(n) = r
     THEN SectionOf(files[CHOOSE n \in S : RoleOf(n) = r])
     ELSE NoRole]

\* The former files in p's directory.
Siblings == {n \in {"server", "client"} : files[n] # Absent}

\* The former files a start with --config p takes over, and the file it puts
\* them in.
Takes(p) == IF files[p] = Absent THEN Siblings ELSE {p}

Target(p) == IF files[p] = Absent THEN p ELSE "unified"

\* The start takes the default configuration.
Fresh(p) == files[p] = Empty \/ (files[p] = Absent /\ Siblings = {})

\* The start reads its own file.
Reads(p, v) == Readable(files[p], v) /\ Valid(files[p].roles)

\* The start takes over former files: its own file is one, or there is none.
Migrates(p) ==
  /\ ~Fresh(p)
  /\ files[p] = Absent \/ (p # "unified" /\ files[p].kind = "legacy")
  /\ \A n \in Takes(p) : files[n].kind \in {"legacy", "empty"}

\* Neither: the start fails and leaves every file as it is.
Refuses(p, v) == ~Fresh(p) /\ ~Reads(p, v) /\ ~Migrates(p)

-----------------------------------------------------------------------------
(* The steps of a start *)

LoadDefault(p) ==
  /\ Fresh(p)
  /\ config' = DefaultNode /\ path' = p /\ todo' = {}
  /\ UNCHANGED <<files, listed>>

LoadUnified(p, v) ==
  /\ Reads(p, v)
  /\ config' = files[p].roles /\ path' = p /\ todo' = {}
  /\ UNCHANGED <<files, listed>>

\* Everything is parsed and checked before anything is written.
LoadLegacy(p) ==
  /\ Migrates(p)
  /\ config' = Merged(Takes(p)) /\ path' = Target(p) /\ todo' = Takes(p)
  /\ UNCHANGED <<files, listed>>

\* save: the file at path becomes the configuration.
Save(v) ==
  /\ files' = [files EXCEPT ![path] = Unified(config, v)]
  /\ UNCHANGED <<config, path, todo, listed>>

RemoveLegacy(n) ==
  /\ n \in todo
  /\ files' = [files EXCEPT ![n] = Absent]
  /\ todo' = todo \ {n}
  /\ UNCHANGED <<config, path, listed>>

\* A request changes the access role in memory, and lists it for a save.
SetAccess(a) ==
  /\ config' = [config EXCEPT !["access"] = a]
  /\ listed' = listed \cup {a}
  /\ UNCHANGED <<files, path, todo>>

\* save_access: the file is read again, its access section replaced by what the
\* request had listed, which a later request may have outdated.
SaveAccess(l, v) ==
  /\ Reads(path, v)
  /\ files' = [files EXCEPT ![path] = Unified([@.roles EXCEPT !["access"] = l], v)]
  /\ listed' = listed \ {l}
  /\ UNCHANGED <<config, path, todo>>

\* It fails, and the error is only logged.
SaveLost(l) == listed' = listed \ {l} /\ UNCHANGED <<files, config, path, todo>>

Forget ==
  /\ config' = NoRoles /\ todo' = {} /\ listed' = {}
  /\ UNCHANGED <<files, path>>
=============================================================================
