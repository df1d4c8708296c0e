----------------------------- MODULE RemoteSetup -----------------------------
(***************************************************************************)
(* The remote configuration of tools/dev/Dev.psm1: `remote setup` asks for *)
(* its fields one by one and writes .dev/remote.local.json, which every    *)
(* other remote command and `doctor` read and validate again. Between two  *)
(* commands the file may be edited by hand.                                *)
(*                                                                         *)
(* A text is reduced to what the patterns tell apart: whether it has blanks*)
(* around it, and its kind. A "name" is made of letters, digits and . _ -, *)
(* an "address" also has : [ or ], a "foreign" text has any other sign; a  *)
(* "quoted" path has a quote or a line break in it, an "inline" identity   *)
(* one of these or the text of a key. Both validations are written out,    *)
(* field by field, as the script has them.                                 *)
(***************************************************************************)
EXTENDS Naturals, Sequences

CONSTANT MaxSetups      \* bound on the setups, readings and edits of a behaviour

Fields   == <<"host", "user", "port", "remoteBaseDirectory", "sshAlias", "identityFile">>
Optional == {"sshAlias", "identityFile"}

Kinds(f) ==
  {""} \cup CASE f = "port" -> {"0", "1", "22", "65535", "65536", "x"}
             [] f = "remoteBaseDirectory" -> {"absolute", "relative", "quoted"}
             [] f = "identityFile" -> {"outside", "inside", "home", "unresolvable", "inline"}
             [] OTHER -> {"name", "address", "foreign"}

Text(kind) == [padded |-> FALSE, kind |-> kind]
Texts(f)   == [padded : BOOLEAN, kind : Kinds(f)]

VARIABLES
  file,       \* .dev/remote.local.json: <<>>, or what it says
  pc,         \* "idle", "ask", "key", "summary" or "write"
  asked,      \* index of the field asked for
  entered,    \* the answers taken so far, by field
  keyExists,  \* whether the suggested key pair exists
  used,       \* commands and edits so far
  outcome     \* of the last command: "none", "aborted", "saved", "refused" or "accepted"

remote == <<file, pc, asked, entered, keyExists, used, outcome>>

RemoteInit ==
  /\ file = <<>>
  /\ pc = "idle" /\ asked = 1 /\ entered = [f \in {} |-> Text("")]
  /\ keyExists \in BOOLEAN
  /\ used = 0
  /\ outcome = "none"

-----------------------------------------------------------------------------
\* The check of the path of an identity file throws inside the try block whose
\* catch is there for paths that cannot be resolved, so it refuses nothing.
RefusedPath(identity) == FALSE

\* IsNullOrWhiteSpace, Trim, -match against a pattern from ^ to $.
Blank(v) == v.kind = ""
Trim(v) == [v EXCEPT !.padded = FALSE]
Matches(v, kinds) == ~v.padded /\ v.kind \in kinds

\* [int]::TryParse takes blanks around a number, and leaves 0 for what is none.
TryParse(v) ==
  CASE v.kind = "1" -> 1 [] v.kind = "22" -> 22
    [] v.kind = "65535" -> 65535 [] v.kind = "65536" -> 65536 [] OTHER -> 0

\* What Read-DevSetupValue makes of an answer: the default of the prompt if the
\* answer is blank and there is one.
Given(f, answer) ==
  IF ~Blank(answer) THEN Trim(answer)
  ELSE CASE f = "port" -> Text("22")
         [] f = "identityFile" /\ keyExists -> Text("outside")
         [] OTHER -> Text("")

\* Mutant of Valid: the alias is tested with the pattern of the host.
Valid_AliasLikeHost(f, v) ==
  CASE f = "host"     -> Matches(v, {"name", "address"})
    [] f = "user"     -> Matches(v, {"name"})
    [] f = "port"     -> TryParse(v) >= 1 /\ TryParse(v) <= 65535
    [] f = "remoteBaseDirectory" -> Matches(v, {"absolute"})
    [] f = "sshAlias" -> Matches(v, {"name", "address"})
    [] f = "identityFile" -> v.kind # "inline"

\* Mutant of Valid: the port is only tested from below.
Valid_PortUnbounded(f, v) ==
  CASE f = "host"     -> Matches(v, {"name", "address"})
    [] f = "user"     -> Matches(v, {"name"})
    [] f = "port"     -> TryParse(v) >= 1
    [] f = "remoteBaseDirectory" -> Matches(v, {"absolute"})
    [] f = "sshAlias" -> Matches(v, {"name"})
    [] f = "identityFile" -> v.kind # "inline"

\* The scriptblocks of the prompts.
Valid(f, v) ==
  CASE f = "host"     -> Matches(v, {"name", "address"})
    [] f = "user"     -> Matches(v, {"name"})
    [] f = "port"     -> TryParse(v) >= 1 /\ TryParse(v) <= 65535
    [] f = "remoteBaseDirectory" -> Matches(v, {"absolute"})
    [] f = "sshAlias" -> Matches(v, {"name"})
    [] f = "identityFile" -> v.kind # "inline"

\* -AllowEmpty: nothing at all is taken before the scriptblock runs.
Taken(f, v) == IF Blank(v) THEN f \in Optional ELSE Valid(f, v)

\* Mutant of Readable: a configuration has to have an alias.
Readable_AliasRequired(config) ==
  /\ Matches(config["host"], {"name", "address"})
  /\ Matches(config["user"], {"name"})
  /\ TryParse(config["port"]) >= 1 /\ TryParse(config["port"]) <= 65535
  /\ Matches(config["remoteBaseDirectory"], {"absolute"})
  /\ Matches(config["sshAlias"], {"name"})
  /\ \/ Blank(config["identityFile"])
     \/ config["identityFile"].kind # "inline" /\ ~RefusedPath(config["identityFile"])

\* Read-DevRemoteConfigFile: nothing is trimmed, and what is blank is missing.
Readable(config) ==
  /\ Matches(config["host"], {"name", "address"})
  /\ Matches(config["user"], {"name"})
  /\ TryParse(config["port"]) >= 1 /\ TryParse(config["port"]) <= 65535
  /\ Matches(config["remoteBaseDirectory"], {"absolute"})
  /\ Blank(config["sshAlias"]) \/ Matches(config["sshAlias"], {"name"})
  /\ \/ Blank(config["identityFile"])
     \/ config["identityFile"].kind # "inline" /\ ~RefusedPath(config["identityFile"])

\* -Confirm in an interactive terminal; without them setup refuses at once.
BeginSetup ==
  /\ pc = "idle" /\ used < MaxSetups
  /\ \/ pc' = "ask" /\ outcome' = "none"
     \/ pc' = "idle" /\ outcome' = "aborted"
  /\ asked' = 1 /\ entered' = [f \in {} |-> Text("")]
  /\ used' = used + 1
  /\ UNCHANGED <<file, keyExists>>

\* One answer; a faulty one is asked for again. The key is dealt with between
\* the alias and the identity file.
Ask ==
  /\ pc = "ask"
  /\ LET f == Fields[asked]
     IN  \E answer \in {Given(f, a) : a \in Texts(f)} :
           IF Taken(f, answer)
           THEN /\ entered' = [g \in DOMAIN entered \cup {f} |-> IF g = f THEN answer ELSE entered[g]]
                /\ asked' = IF asked < Len(Fields) THEN asked + 1 ELSE asked
                /\ pc' = CASE f = "sshAlias" -> "key" [] f = "identityFile" -> "summary"
                           [] OTHER -> "ask"
           ELSE UNCHANGED <<entered, asked, pc>>
  /\ UNCHANGED <<file, keyExists, used, outcome>>

\* ssh-keygen runs if the user wants it and no key is there; a failure or a
\* declined empty passphrase ends the setup.
MakeKey ==
  /\ pc = "key"
  /\ \/ pc' = "ask" /\ UNCHANGED <<keyExists, outcome>>
     \/ ~keyExists /\ pc' = "ask" /\ keyExists' = TRUE /\ UNCHANGED outcome
     \/ ~keyExists /\ pc' = "idle" /\ outcome' = "aborted" /\ UNCHANGED keyExists
  /\ UNCHANGED <<file, asked, entered, used>>

\* Only `yes` leads to the file; a path that is refused ends the setup before.
Confirm ==
  /\ pc = "summary"
  /\ \/ ~RefusedPath(entered["identityFile"]) /\ pc' = "write" /\ UNCHANGED outcome
     \/ pc' = "idle" /\ outcome' = "aborted"
  /\ UNCHANGED <<file, asked, entered, keyExists, used>>

\* A file whose writing stopped half-way says nothing.
Truncated == [f \in {Fields[k] : k \in DOMAIN Fields} |-> Text("")]

\* WriteAllText may fail, before it has emptied the file or after.
Write ==
  /\ pc = "write"
  /\ \/ file' = <<entered>> /\ outcome' = "saved"
     \/ file' \in {file, <<Truncated>>} /\ outcome' = "aborted"
  /\ pc' = "idle"
  /\ UNCHANGED <<asked, entered, keyExists, used>>

\* A setup that is left with Ctrl-C.
Interrupt ==
  /\ pc # "idle"
  /\ pc' = "idle" /\ outcome' = "aborted"
  /\ UNCHANGED <<file, asked, entered, keyExists, used>>

\* .dev/remote.example.json, which a file made by hand starts from.
Example ==
  [f \in {Fields[k] : k \in DOMAIN Fields} |->
     CASE f = "port" -> Text("22")
       [] f = "remoteBaseDirectory" -> Text("absolute")
       [] f \in Optional -> Text("")
       [] OTHER -> Text("name")]

\* A field of the file is edited by hand, or left out, which reads as empty.
EditFile ==
  /\ pc = "idle" /\ used < MaxSetups
  /\ \E k \in DOMAIN Fields : \E v \in Texts(Fields[k]) :
       file' = <<[(IF file = <<>> THEN Example ELSE file[1]) EXCEPT ![Fields[k]] = v]>>
  /\ used' = used + 1 /\ outcome' = "none"
  /\ UNCHANGED <<pc, asked, entered, keyExists>>

\* Another remote command, or doctor, reads the configuration.
Read ==
  /\ pc = "idle" /\ used < MaxSetups
  /\ outcome' = IF file # <<>> /\ Readable(file[1]) THEN "accepted" ELSE "refused"
  /\ used' = used + 1
  /\ UNCHANGED <<file, pc, asked, entered, keyExists>>

RemoteNext ==
  \/ BeginSetup \/ Ask \/ MakeKey \/ Confirm \/ Write \/ Interrupt
  \/ EditFile \/ Read

RemoteSpec == RemoteInit /\ [][RemoteNext]_remote

-----------------------------------------------------------------------------
\* What setup has saved the commands that read it accept, although the rules
\* stand twice in the script, in the prompts, which trim and fill in defaults,
\* and in the reader, which does neither (Invoke-DevRemoteSetup,
\* Read-DevRemoteConfigFile).
SavedIsReadable == outcome = "saved" => file # <<>> /\ Readable(file[1])

\* "identityFile must not point inside the repository. Private keys never
\* belong in the repo.": neither the wizard saves nor a reader accepts one.
IdentityIsOutside ==
  outcome \in {"saved", "accepted"} => file[1]["identityFile"].kind # "inside"
=============================================================================
