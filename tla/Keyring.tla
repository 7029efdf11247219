------------------------------ MODULE Keyring ------------------------------
(***************************************************************************)
(* The signing key file: servers that create or load it when they start,   *)
(* and add-key, which rewrites it through a temporary file; any of them may *)
(* die between two calls of the file system.                               *)
(***************************************************************************)
EXTENDS Naturals, FiniteSets

CONSTANTS
  Servers,  \* starts of the server, that may overlap
  Adders,   \* runs of add-key, each with its own kid
  NoFile    \* no file of that name

ASSUME KeyringAssumption ==
  Servers # {} /\ Servers \cap Adders = {} /\ NoFile \notin Servers \cup Adders

VARIABLES
  named,   \* the file behind each of the two names
  text,    \* what is in each file
  server,  \* each start of the server
  adder    \* each run of add-key

keyringVars == <<named, text, server, adder>>

(* A file is known by who made it, and so is a secret.  A file that is created
   and not written yet holds nothing. *)
Makers == Servers \cup Adders
Text == [secret : Servers \cup {NoFile}, kids : SUBSET Adders]
Empty == [secret |-> NoFile, kids |-> {}]

KeyringTypeOK ==
  /\ named \in [{"key", "tmp"} -> Makers \cup {NoFile}]
  /\ text \in [Makers -> Text]
  /\ server \in [Servers -> [pc : {"new", "create", "write", "load", "up", "failed"},
                             ring : Text]]
  /\ adder \in [Adders -> [pc : {"new", "open", "write", "rename", "added", "failed"},
                           read : Text, file : Makers \cup {NoFile}]]

KeyringInit ==
  /\ named = [n \in {"key", "tmp"} |-> NoFile]
  /\ text = [m \in Makers |-> Empty]
  /\ server = [s \in Servers |-> [pc |-> "new", ring |-> Empty]]
  /\ adder = [a \in Adders |-> [pc |-> "new", read |-> Empty, file |-> NoFile]]

-----------------------------------------------------------------------------
ServerAt(s, pc) == server[s].pc = pc
Written(file) == text[file] # Empty

(* load_or_create: is there a key file? *)
Start(s) ==
  /\ ServerAt(s, "new")
  /\ server' = [server EXCEPT ![s].pc = IF named["key"] = NoFile THEN "create" ELSE "load"]
  /\ UNCHANGED <<named, text, adder>>

(* MUTANT of Create: without O_EXCL, so that a second start takes its turn. *)
CreateTruncating(s) ==
  /\ ServerAt(s, "create")
  /\ named' = [named EXCEPT !["key"] = s]
  /\ server' = [server EXCEPT ![s].pc = "write"]
  /\ UNCHANGED <<text, adder>>

(* create_key_file: create_new fails when someone else was first. *)
Create(s) ==
  /\ ServerAt(s, "create")
  /\ IF named["key"] = NoFile
       THEN /\ named' = [named EXCEPT !["key"] = s]
            /\ server' = [server EXCEPT ![s].pc = "write"]
       ELSE /\ server' = [server EXCEPT ![s].pc = "failed"]
            /\ UNCHANGED named
  /\ UNCHANGED <<text, adder>>

WriteSecret(s) ==
  /\ ServerAt(s, "write")
  /\ text' = [text EXCEPT ![s] = [secret |-> s, kids |-> {}]]
  /\ server' = [server EXCEPT ![s].pc = "load"]
  /\ UNCHANGED <<named, adder>>

(* Keyring::load: a file that does not parse stops the process. *)
Load(s) ==
  /\ ServerAt(s, "load")
  /\ server' = [server EXCEPT ![s] =
       IF named["key"] # NoFile /\ Written(named["key"])
         THEN [pc |-> "up", ring |-> text[named["key"]]]
         ELSE [pc |-> "failed", ring |-> Empty]]
  /\ UNCHANGED <<named, text, adder>>

ServerDies(s) ==
  /\ server[s].pc \notin {"new", "failed"}
  /\ server' = [server EXCEPT ![s] = [pc |-> "failed", ring |-> Empty]]
  /\ UNCHANGED <<named, text, adder>>

-----------------------------------------------------------------------------
AdderAt(a, pc) == adder[a].pc = pc
AdderFails(a) == adder' = [adder EXCEPT ![a].pc = "failed"]

(* add_key reads the file, which must parse. *)
ReadKeys(a) ==
  /\ AdderAt(a, "new")
  /\ IF named["key"] # NoFile /\ Written(named["key"])
       THEN adder' = [adder EXCEPT ![a].pc = "open", ![a].read = text[named["key"]]]
       ELSE AdderFails(a)
  /\ UNCHANGED <<named, text, server>>

(* Opens the temporary file, which is truncated if there is one. *)
OpenTmp(a) ==
  /\ AdderAt(a, "open")
  /\ LET file == IF named["tmp"] = NoFile THEN a ELSE named["tmp"] IN
     /\ named' = [named EXCEPT !["tmp"] = file]
     /\ text' = [text EXCEPT ![file] = Empty]
     /\ adder' = [adder EXCEPT ![a].pc = "write", ![a].file = file]
  /\ UNCHANGED server

WriteKeys(a) ==
  /\ AdderAt(a, "write")
  /\ text' = [text EXCEPT ![adder[a].file] =
                [adder[a].read EXCEPT !.kids = @ \cup {a}]]
  /\ adder' = [adder EXCEPT ![a].pc = "rename"]
  /\ UNCHANGED <<named, server>>

Rename(a) ==
  /\ AdderAt(a, "rename")
  /\ IF named["tmp"] = NoFile
       THEN AdderFails(a) /\ UNCHANGED named
       ELSE /\ named' = [n \in {"key", "tmp"} |-> IF n = "key" THEN named["tmp"] ELSE NoFile]
            /\ adder' = [adder EXCEPT ![a].pc = "added"]
  /\ UNCHANGED <<text, server>>

AdderDies(a) ==
  /\ adder[a].pc \in {"open", "write", "rename"}
  /\ AdderFails(a)
  /\ UNCHANGED <<named, text, server>>

-----------------------------------------------------------------------------
KeyringNext ==
  \/ \E s \in Servers : Start(s) \/ Create(s) \/ WriteSecret(s) \/ Load(s) \/ ServerDies(s)
  \/ \E a \in Adders : ReadKeys(a) \/ OpenTmp(a) \/ WriteKeys(a) \/ Rename(a) \/ AdderDies(a)

KeyringSpec == KeyringInit /\ [][KeyringNext]_keyringVars

-----------------------------------------------------------------------------
(* create_key_file: two servers racing to first start "must not both believe
   they own the secret": every server that came up signs by default with one
   and the same secret, and every key file and temporary file that holds
   anything holds it too, whoever created, rewrote or renamed it, whoever died
   on the way, and although two add-key runs use one temporary file. *)
OneDefaultSecret ==
  \E owner \in Servers :
    /\ \A s \in Servers : ServerAt(s, "up") => server[s].ring.secret = owner
    /\ \A m \in Makers : Written(m) => text[m].secret = owner
=============================================================================
