------------------------------- MODULE Entrypoint -------------------------------
(***************************************************************************)
(* scripts/sops-entrypoint.sh: what the server finds in its environment    *)
(* when the container starts it.  The ciphertext in the image is decrypted *)
(* if there is a key, and each line of the plaintext is exported unless    *)
(* the container sets the variable.  The variables of the script itself    *)
(* live in the same namespace.  A value is one of a few kinds.             *)
(***************************************************************************)
EXTENDS Sequences, Naturals

CONSTANTS Names,       \* names of variables
          MaxLines     \* bounds the lines of the ciphertext

VARIABLES
    container,      \* the environment the container was given
    env,            \* the environment of the script
    present, supplied, required, sops, readable,     \* what the script tests
    file,           \* the lines of the plaintext
    read,           \* how many of them have been read
    pc

vars == <<container, env, present, supplied, required, sops, readable, file, read, pc>>

Unset == "unset"
\* The values of a line: nothing, one that ends in the only "=" it has, such as
\* base64 with one sign of padding, and any other.
Raws == {"empty", "padded", "text"}
\* The values a variable has, with those the container gives it and the default
\* of SOPS_SECRETS_FILE.
Values == {Unset, "empty", "text", "cut", "own", "default"}
\* Keys the script skips: comments, metadata of sops, what is not a name.
Skipped == {"#", "sops_mac", "export_A"}
Lines == [key : Names \cup Skipped, raw : Raws]

\* The variables of the script: it reads lines into two, keeps the plaintext in
\* one and the path in one, and takes all four for set by the container.
Own == {"key", "value", "secrets", "SOPS_SECRETS_FILE"}

\* IFS='=' read -r key value: value is the rest of the line, without the "=" that
\* ends it when there is no other.
Field(raw) == IF raw = "padded" THEN "cut" ELSE raw

\* : "${SOPS_SECRETS_FILE:=...}" has given an empty path its default.
Init ==
    /\ container \in [Names -> {Unset, "empty", "own"}]
    /\ env = [name \in Names |->
                IF name = "SOPS_SECRETS_FILE" /\ container[name] = "empty"
                THEN "default" ELSE container[name]]
    /\ present \in BOOLEAN /\ supplied \in BOOLEAN /\ required \in BOOLEAN
    /\ sops \in BOOLEAN /\ readable \in BOOLEAN
    /\ file \in UNION {[1..n -> Lines] : n \in 0..MaxLines}
    /\ read = 0
    /\ pc = "start"

Fixed == UNCHANGED <<container, present, supplied, required, sops, readable, file>>
Goto(step) == pc' = step /\ UNCHANGED <<env, read>> /\ Fixed

-------------------------------------------------------------------------------
\* No ciphertext, or no key for it: the command runs in the container's own
\* environment, unless a key is required.
RunUnchanged ==
    /\ pc = "start"
    /\ ~present \/ (~supplied /\ ~required)
    /\ Goto("exec")

RefuseKeyless ==
    /\ pc = "start"
    /\ present /\ ~supplied /\ required
    /\ Goto("exited")

\* Fault: what could not be decrypted is left out.
Decrypt_FailsOpen ==
    /\ pc = "start"
    /\ present /\ supplied
    /\ pc' = "reading"
    /\ read' = IF sops /\ readable THEN 0 ELSE Len(file)
    /\ UNCHANGED env /\ Fixed

\* The ciphertext is decrypted into a variable of the shell.
Decrypt ==
    /\ pc = "start"
    /\ present /\ supplied
    /\ \/ sops /\ readable /\ pc' = "reading"
       \/ ~(sops /\ readable) /\ pc' = "exited"
    /\ UNCHANGED <<env, read>> /\ Fixed

\* Fault: a variable that is set to nothing is taken for one that is not set.
Free_Empty(name) == name \notin Own /\ env[name] \in {Unset, "empty"}

\* The variable is not set in the shell as it is now.
Free(name) == name \notin Own /\ env[name] = Unset

\* One turn of the loop.
ReadLine ==
    /\ pc = "reading"
    /\ read < Len(file)
    /\ LET line == file[read + 1]
       IN env' = [name \in Names |->
                    IF name = line.key /\ Free(name) THEN Field(line.raw) ELSE env[name]]
    /\ read' = read + 1
    /\ UNCHANGED pc /\ Fixed

\* What the script leaves of a variable: the read that finds no more lines empties
\* the two it reads into, which the application sees if the container had exported
\* them, and the one with the plaintext is unset.
LeftOf(name) ==
    IF name = "secrets" THEN Unset
    ELSE IF name \in {"key", "value"} /\ env[name] # Unset THEN "empty" ELSE env[name]

\* The loop ends, and the application replaces the shell.
Exec ==
    /\ pc = "reading"
    /\ read = Len(file)
    /\ env' = [name \in Names |-> LeftOf(name)]
    /\ pc' = "exec"
    /\ UNCHANGED read /\ Fixed

Finished == pc \in {"exec", "exited"} /\ UNCHANGED vars

Next ==
    \/ RunUnchanged \/ RefuseKeyless \/ Decrypt \/ ReadLine \/ Exec \/ Finished

Spec == Init /\ [][Next]_vars

-------------------------------------------------------------------------------
\* A line that is the first of a variable that is not one of the script's.
FirstOfItsName(i) ==
    /\ file[i].key \in Names \ Own
    /\ \A j \in 1 .. i - 1 : file[j].key # file[i].key

\* An orchestrator can override a single value, with an empty one too: what the
\* container sets is what the application sees.  The script's own variables are
\* the exception: key, value and secrets of the container are lost.
ContainerWins ==
    pc = "exec" => \A name \in Names \ Own :
                      container[name] # Unset => env[name] = container[name]

\* With a key and a ciphertext the application runs with every variable of it that
\* the container leaves open, as the first line of that name has it, or not at all.
AllOrNothing ==
    pc = "exec" /\ present /\ (supplied \/ required) =>
        /\ sops /\ readable
        /\ \A i \in DOMAIN file : FirstOfItsName(i) /\ container[file[i].key] = Unset
              => env[file[i].key] = Field(file[i].raw)
===============================================================================
