-------------------------------- MODULE EnvFiles --------------------------------
(***************************************************************************)
(* The files of one environment under the recipes of .just/env.just, run   *)
(* one at a time on one machine: the ciphertext env/enc/<name>.env.enc,    *)
(* the plaintext env/dec/<name>.env and the temporary files beside it.     *)
(* One action per test or command of a recipe that reads or changes them,  *)
(* so that an interrupt, or a command that fails, stops a recipe between   *)
(* any two (the recipes run under set -e and clean up nothing).  Outside   *)
(* are sops, which may fail, the user, who edits the plaintext, and git,   *)
(* which brings ciphertexts.                                               *)
(***************************************************************************)
EXTENDS Integers

CONSTANTS Names,         \* the variables of the environment
          MaxVersion     \* bounds the edits, of the user and of others

ASSUME VersionAssumption == MaxVersion \in Nat

VARIABLES
    enc, dec,       \* the two files
    tmp,            \* what mktemp made for the running recipe
    leftover,       \* the temporary files of recipes that did not finish
    pc,             \* the command the running recipe is at, or "idle"
    verdict,        \* how the last recipe ended
    version,        \* the newest version of any value
    mine,           \* the user's edits in env/dec, until it is replaced on request
    filed,          \* what the last env-encrypt to succeed took from env/dec
    brought         \* git brought the ciphertext after the recipe found none

promises == <<mine, filed>>
vars == <<enc, dec, tmp, leftover, pc, verdict, version, promises, brought>>

Content == [Names -> 0..MaxVersion]
Blank == [name \in Names |-> 0]
\* A file is there or not, and holds a whole text or none that can be used:
\* an empty or cut ciphertext, a plaintext overwritten with zeros.
Files == [is : {"whole", "broken", "absent"}, text : Content]
Whole(text) == [is |-> "whole", text |-> text]
Broken == [is |-> "broken", text |-> Blank]
Absent == [is |-> "absent", text |-> Blank]

Commands ==
    {"idle", "decrypt", "mv", "edit", "open", "encrypt", "open_new", "create", "rm"}
Verdicts == {"none", "ok", "cleaned", "failed", "unreadable", "interrupted"}

\* Either file may be there first: a plaintext can be written by hand.
Init ==
    /\ enc \in {Absent, Whole(Blank)}
    /\ dec \in {Absent, Whole(Blank)}
    /\ tmp = Absent /\ leftover = {}
    /\ pc = "idle" /\ verdict = "none"
    /\ version = 0 /\ mine = Blank /\ filed = Blank /\ brought = FALSE

-------------------------------------------------------------------------------
Goto(command) == pc' = command /\ UNCHANGED verdict
\* The recipe ends; what mktemp made and mv did not take stays.
Stop(how) ==
    /\ pc' = "idle" /\ verdict' = how
    /\ leftover' = leftover \cup ({tmp.is} \ {"absent"})
    /\ tmp' = Absent
    /\ brought' = FALSE

\* A command of a recipe fails, or the user interrupts the recipe before the
\* command; the ciphertext that > has opened for it stays empty.
Fail ==
    /\ pc # "idle"
    /\ \E how \in {"failed", "interrupted"} : Stop(how)
    /\ UNCHANGED <<enc, dec, version, promises>>

\* env-decrypt and env-docker-env-file: mktemp beside the plaintext.
DecryptStarts ==
    /\ pc = "idle"
    /\ enc.is # "absent"
    /\ tmp' = Broken
    /\ Goto("decrypt")
    /\ UNCHANGED <<enc, dec, leftover, version, promises, brought>>

\* Fault: sops writes to env/dec/<name>.env itself, which > empties first.
Decrypt_InPlace ==
    /\ pc = "decrypt"
    /\ \/ enc.is = "whole" /\ dec' = enc /\ mine' = Blank /\ Stop("ok")
       \/ dec' = Broken /\ UNCHANGED mine /\ Stop("unreadable")
    /\ UNCHANGED <<enc, version, filed>>

\* sops decrypt > "$tmp"; of the ciphertext as it is by then.
Decrypt ==
    /\ pc = "decrypt"
    /\ \/ enc.is = "whole" /\ tmp' = enc /\ Goto("mv") /\ UNCHANGED <<leftover, brought>>
       \/ enc.is # "whole" /\ Stop("unreadable")
    /\ UNCHANGED <<enc, dec, version, promises>>

\* mv -f "$tmp" "$out"
Move ==
    /\ pc = "mv"
    /\ dec' = tmp
    /\ tmp' = Absent
    /\ mine' = Blank
    /\ pc' = "idle" /\ verdict' = "ok"
    /\ UNCHANGED <<enc, leftover, version, filed, brought>>

\* Fault: the ciphertext is always written anew.
EncryptStarts_Anew ==
    /\ pc = "idle"
    /\ dec.is # "absent"
    /\ Goto("open")
    /\ UNCHANGED <<enc, dec, tmp, leftover, version, promises, brought>>

\* env-encrypt: sops edit if there is a ciphertext, sops encrypt if there is none.
EncryptStarts ==
    /\ pc = "idle"
    /\ dec.is # "absent"
    /\ \/ enc.is # "absent" /\ Goto("edit")
       \/ enc.is = "absent" /\ Goto("open")
    /\ UNCHANGED <<enc, dec, tmp, leftover, version, promises, brought>>

\* sops edit with cp as the editor: the whole plaintext replaces what was in
\* the ciphertext, if sops can read both.
EditByCopy ==
    /\ pc = "edit"
    /\ \/ enc.is = "whole" /\ dec.is = "whole" /\ Stop("ok")
          /\ enc' = dec /\ filed' = dec.text
       \/ enc.is # "whole" /\ Stop("unreadable") /\ UNCHANGED <<enc, filed>>
       \/ dec.is # "whole" /\ Stop("failed") /\ UNCHANGED <<enc, filed>>
    /\ UNCHANGED <<dec, version, mine>>

\* env-new, which refuses a ciphertext that exists.
NewStarts ==
    /\ pc = "idle"
    /\ enc.is = "absent"
    /\ Goto("open_new")
    /\ UNCHANGED <<enc, dec, tmp, leftover, version, promises, brought>>

\* > "$dst" makes the ciphertext of env-encrypt and env-new before sops runs, or
\* empties the one that came after the test.
Open ==
    /\ \/ pc = "open" /\ Goto("encrypt")
       \/ pc = "open_new" /\ Goto("create")
    /\ enc' = Broken
    /\ brought' = FALSE
    /\ UNCHANGED <<dec, tmp, leftover, version, promises>>

\* sops encrypt > "$dst"
Encrypt ==
    /\ pc = "encrypt"
    /\ \/ dec.is = "whole" /\ Stop("ok") /\ enc' = dec /\ filed' = dec.text
       \/ dec.is # "whole" /\ Stop("failed") /\ UNCHANGED <<enc, filed>>
    /\ UNCHANGED <<dec, version, mine>>

\* The same of a comment alone.
Create ==
    /\ pc = "create"
    /\ enc' = Whole(Blank)
    /\ Stop("ok")
    /\ UNCHANGED <<dec, version, promises>>

\* env-clean overwrites env/dec/*.env with zeros and removes it.
CleanStarts ==
    /\ pc = "idle"
    /\ IF dec.is = "absent"
       THEN Stop("cleaned") /\ UNCHANGED <<dec, mine>>
       ELSE /\ dec' = Broken /\ mine' = Blank /\ Goto("rm")
            /\ UNCHANGED <<tmp, leftover, brought>>
    /\ UNCHANGED <<enc, version, filed>>

Remove ==
    /\ pc = "rm"
    /\ dec' = Absent
    /\ Stop("cleaned")
    /\ UNCHANGED <<enc, version, promises>>

\* A value is changed: by env-edit, which is one run of sops, by a ciphertext
\* that git pull brings (external), or in env/dec by the user.
NewValue(file, name) ==
    /\ file.is = "whole"
    /\ version < MaxVersion
    /\ version' = version + 1
    /\ file' = Whole([file.text EXCEPT ![name] = version + 1])

EditCiphertext(name) ==
    /\ NewValue(enc, name)
    /\ UNCHANGED <<dec, tmp, leftover, pc, verdict, promises, brought>>

EditPlaintext(name) ==
    /\ NewValue(dec, name)
    /\ mine' = [mine EXCEPT ![name] = version + 1]
    /\ UNCHANGED <<enc, tmp, leftover, pc, verdict, filed, brought>>

\* git pull brings a ciphertext where there was none (external).
CiphertextArrives(name) ==
    /\ enc.is = "absent"
    /\ version < MaxVersion
    /\ version' = version + 1
    /\ enc' = Whole([Blank EXCEPT ![name] = version + 1])
    /\ brought' = (pc \in {"open", "open_new"})
    /\ UNCHANGED <<dec, tmp, leftover, pc, verdict, promises>>

Recipe ==
    \/ Fail \/ DecryptStarts \/ Decrypt \/ Move \/ EncryptStarts \/ EditByCopy
    \/ NewStarts \/ Open \/ Encrypt \/ Create \/ CleanStarts \/ Remove

Changes(name) == EditCiphertext(name) \/ EditPlaintext(name) \/ CiphertextArrives(name)

Next == Recipe \/ \E name \in Names : Changes(name)

Spec == Init /\ [][Next]_vars

-------------------------------------------------------------------------------
\* The shape of the state; a recipe that is not running has no temporary file.
TypeOK ==
    /\ {enc, dec, tmp} \subseteq Files
    /\ leftover \subseteq {"whole", "broken"}
    /\ pc \in Commands /\ verdict \in Verdicts
    /\ version \in 0..MaxVersion
    /\ {mine, filed} \subseteq Content
    /\ brought \in BOOLEAN
    /\ tmp.is # "absent" => pc \in {"decrypt", "mv"}

\* No recipe that fails or is interrupted damages a ciphertext that was whole, the
\* only copy of the values that can be relied on.  The one exception is a ciphertext
\* that git brings between the test for one and the > that opens it.
WholeCiphertextStays == [][enc.is = "whole" => enc'.is = "whole" \/ brought]_vars

\* A plaintext that can be used is replaced by a whole one, or by env-clean: a
\* decryption that fails half way leaves it alone.
PlaintextIsReplacedWhole ==
    [][dec.is = "whole" /\ dec'.is = "broken" => pc' = "rm"]_vars

\* No edit is lost by a recipe that fails or is interrupted.  What the user wrote to
\* the plaintext is there, whatever was tried since, until a decryption has gone all
\* the way to its mv or env-clean was asked for; and what an env-encrypt that
\* succeeded took from the plaintext is in the ciphertext, or something newer is.
EditsSurvive ==
    \A name \in Names :
        /\ mine[name] # 0 => dec.is = "whole" /\ dec.text[name] = mine[name]
        /\ filed[name] # 0 => enc.is = "whole" /\ enc.text[name] >= filed[name]
===============================================================================
