---------------------------- MODULE EnvironmentProofs ----------------------------
(***************************************************************************)
(* Proofs about the files of an environment and about the container that   *)
(* starts with one, for every set of variables, any number of edits and    *)
(* any file: a recipe that stops anywhere damages neither file and loses   *)
(* no edit (EnvFiles), and the container runs with what it sets itself and *)
(* with every variable of the file, or not at all (Entrypoint).            *)
(***************************************************************************)
EXTENDS MCEnvFiles, TLAPS

-------------------------------------------------------------------------------
\* EnvFiles.
\* A > is opened only where the recipe found no ciphertext: one that is there by
\* then came from git.
OpenInv == pc \in {"open", "open_new"} => enc.is = "absent" \/ brought

\* Nothing runs at first.
LEMMA OpenInit == Init => OpenInv
  BY DEF Init, OpenInv

\* Every step keeps OpenInv.
LEMMA OpenNext == OpenInv /\ [Next]_vars => OpenInv'
  <1> SUFFICES ASSUME OpenInv, [Next]_vars PROVE OpenInv'
    OBVIOUS
  <1>1. CASE Fail \/ DecryptStarts \/ Decrypt \/ Move
    BY <1>1 DEF Fail, DecryptStarts, Decrypt, Move, Stop, Goto, OpenInv
  <1>2. CASE EncryptStarts \/ EditByCopy \/ Encrypt
    BY <1>2 DEF EncryptStarts, EditByCopy, Encrypt, Stop, Goto, OpenInv
  <1>3. CASE NewStarts \/ Open \/ Create \/ CleanStarts \/ Remove
    BY <1>3 DEF NewStarts, Open, Create, CleanStarts, Remove, Stop, Goto, OpenInv
  <1>4. ASSUME NEW name \in Names, Changes(name) PROVE OpenInv'
    BY <1>4 DEF Changes, EditCiphertext, EditPlaintext, CiphertextArrives, NewValue,
                Whole, OpenInv
  <1>5. CASE UNCHANGED vars
    BY <1>5 DEF vars, OpenInv
  <1>6. QED
    BY <1>1, <1>2, <1>3, <1>4, <1>5 DEF Next, Recipe

\* OpenInv holds in every reachable state.
LEMMA OpenHolds == Spec => []OpenInv
  BY OpenInit, OpenNext, PTL DEF Spec

\* A ciphertext is only made anew where there is none, and only replaced whole.
LEMMA CiphertextStep ==
    OpenInv /\ [Next]_vars => (enc.is = "whole" => enc'.is = "whole" \/ brought)
  <1> SUFFICES ASSUME OpenInv, [Next]_vars, enc.is = "whole"
               PROVE  enc'.is = "whole" \/ brought
    OBVIOUS
  <1>1. CASE Recipe
    <2>1. CASE UNCHANGED enc
      BY <2>1
    <2>2. CASE EditByCopy \/ Encrypt \/ Create
      BY <2>2 DEF EditByCopy, Encrypt, Create, Whole
    <2>3. CASE Open
      BY <2>3 DEF Open, OpenInv
    <2>4. QED
      BY <1>1, <2>1, <2>2, <2>3
      DEF Recipe, Fail, DecryptStarts, Decrypt, Move, EncryptStarts, NewStarts,
          CleanStarts, Remove
  <1>2. ASSUME NEW name \in Names, Changes(name) PROVE enc'.is = "whole"
    BY <1>2 DEF Changes, EditCiphertext, EditPlaintext, CiphertextArrives, NewValue, Whole
  <1>3. CASE UNCHANGED vars
    BY <1>3 DEF vars
  <1>4. QED
    BY <1>1, <1>2, <1>3 DEF Next

\* No recipe damages a whole ciphertext that it could have seen.
THEOREM WholeCiphertextStaysHolds == Spec => WholeCiphertextStays
  <1>1. OpenInv /\ [Next]_vars
          => [enc.is = "whole" => enc'.is = "whole" \/ brought]_vars
    BY CiphertextStep
  <1>2. QED
    BY <1>1, OpenHolds, PTL DEF Spec, WholeCiphertextStays

-------------------------------------------------------------------------------
\* A recipe at mv has a whole plaintext in its temporary file: it is not there
\* when sops has failed.
MoveInv == pc = "mv" => tmp.is = "whole"

\* Nothing runs and nothing is edited at first.
LEMMA MoveInit == Init => MoveInv
  BY DEF Init, MoveInv

\* Every step keeps MoveInv.
LEMMA MoveNext == MoveInv /\ [Next]_vars => MoveInv'
  <1> SUFFICES ASSUME MoveInv, [Next]_vars PROVE MoveInv'
    OBVIOUS
  <1>1. CASE Fail \/ DecryptStarts \/ Decrypt \/ Move
    BY <1>1 DEF Fail, DecryptStarts, Decrypt, Move, Stop, Goto, MoveInv
  <1>2. CASE EncryptStarts \/ EditByCopy \/ Encrypt
    BY <1>2 DEF EncryptStarts, EditByCopy, Encrypt, Stop, Goto, MoveInv
  <1>3. CASE NewStarts \/ Open \/ Create \/ CleanStarts \/ Remove
    BY <1>3 DEF NewStarts, Open, Create, CleanStarts, Remove, Stop, Goto, MoveInv
  <1>4. ASSUME NEW name \in Names, Changes(name) PROVE MoveInv'
    BY <1>4 DEF Changes, EditCiphertext, EditPlaintext, CiphertextArrives, NewValue,
                Whole, MoveInv
  <1>5. CASE UNCHANGED vars
    BY <1>5 DEF vars, MoveInv
  <1>6. QED
    BY <1>1, <1>2, <1>3, <1>4, <1>5 DEF Next, Recipe

\* MoveInv holds in every reachable state.
LEMMA MoveHolds == Spec => []MoveInv
  BY MoveInit, MoveNext, PTL DEF Spec

\* A step replaces a usable plaintext by a whole one, or is env-clean's.
LEMMA PlaintextStep ==
    MoveInv /\ [Next]_vars => (dec.is = "whole" /\ dec'.is = "broken" => pc' = "rm")
  <1> SUFFICES ASSUME MoveInv, [Next]_vars, dec.is = "whole", dec'.is = "broken"
               PROVE  pc' = "rm"
    OBVIOUS
  <1>1. CASE Recipe
    BY <1>1
    DEF Recipe, Fail, DecryptStarts, Decrypt, Move, EncryptStarts, EditByCopy, Encrypt,
        NewStarts, Open, Create, CleanStarts, Remove, Goto, Stop, MoveInv, Absent
  <1>2. ASSUME NEW name \in Names, Changes(name) PROVE pc' = "rm"
    BY <1>2 DEF Changes, EditCiphertext, EditPlaintext, CiphertextArrives, NewValue, Whole
  <1>3. CASE UNCHANGED vars
    BY <1>3 DEF vars
  <1>4. QED
    BY <1>1, <1>2, <1>3 DEF Next

\* A decryption that fails half way leaves env/dec alone.
THEOREM PlaintextIsReplacedWholeHolds == Spec => PlaintextIsReplacedWhole
  <1>1. MoveInv /\ [Next]_vars
          => [dec.is = "whole" /\ dec'.is = "broken" => pc' = "rm"]_vars
    BY PlaintextStep
  <1>2. QED
    BY <1>1, MoveHolds, PTL DEF Spec, PlaintextIsReplacedWhole

-------------------------------------------------------------------------------
\* The files a step writes from nothing are files.
LEMMA FileForms ==
  /\ Broken \in Files /\ Absent \in Files
  /\ \A text \in Content : Whole(text) \in Files
  BY VersionAssumption DEF Files, Content, Blank, Broken, Absent, Whole

\* Nothing runs at first.
LEMMA TypeInit == Init => TypeOK
  <1> SUFFICES ASSUME Init PROVE TypeOK
    OBVIOUS
  <1>1. Blank \in Content
    BY VersionAssumption DEF Blank, Content
  <1>2. {enc, dec, tmp} \subseteq Files
    BY <1>1, FileForms DEF Init
  <1>3. tmp.is = "absent"
    BY DEF Init, Absent
  <1>4. pc \in Commands /\ verdict \in Verdicts /\ version \in 0..MaxVersion
    BY VersionAssumption DEF Init, Commands, Verdicts
  <1>5. QED
    BY <1>1, <1>2, <1>3, <1>4 DEF Init, TypeOK

\* A recipe that ends without mv counts its temporary file among the leftovers.
LEMMA StopStep ==
    ASSUME TypeOK, NEW how \in Verdicts, Stop(how)
    PROVE  /\ tmp' \in Files /\ leftover' \subseteq {"whole", "broken"}
           /\ pc' \in Commands /\ verdict' \in Verdicts
           /\ tmp'.is # "absent" => pc' \in {"decrypt", "mv"}
          /\ brought' \in BOOLEAN
  BY FileForms DEF TypeOK, Stop, Commands, Files, Absent

\* Every command keeps the shape of the state.
LEMMA TypeRecipe == ASSUME TypeOK, Recipe PROVE TypeOK'
  <1>0. Blank \in Content /\ dec.text \in Content
    BY VersionAssumption DEF TypeOK, Files, Blank, Content
  <1> USE FileForms, <1>0 DEF TypeOK, promises
  <1>1. CASE Fail
    <2>1. PICK how \in {"failed", "interrupted"} : Stop(how)
      BY <1>1 DEF Fail
    <2>2. QED
      BY <1>1, <2>1, StopStep DEF Fail, Verdicts
  <1>2. CASE DecryptStarts
    BY <1>2 DEF DecryptStarts, Goto, Commands
  <1>3. CASE Decrypt
    <2>1. CASE Stop("unreadable")
      BY <1>3, <2>1, StopStep DEF Decrypt, Verdicts
    <2>2. CASE tmp' = enc /\ Goto("mv") /\ UNCHANGED <<leftover, brought>>
      BY <1>3, <2>2 DEF Decrypt, Goto, Commands
    <2>3. QED
      BY <1>3, <2>1, <2>2 DEF Decrypt
  <1>4. CASE Move
    BY <1>4 DEF Move, Commands, Verdicts, Absent
  <1>5. CASE EncryptStarts
    BY <1>5 DEF EncryptStarts, Goto, Commands
  <1>6. CASE EditByCopy
    <2>1. PICK how \in {"ok", "unreadable", "failed"} : Stop(how)
      BY <1>6 DEF EditByCopy
    <2>2. QED
      BY <1>6, <2>1, StopStep DEF EditByCopy, Verdicts
  <1>7. CASE Encrypt
    <2>1. PICK how \in {"ok", "failed"} : Stop(how)
      BY <1>7 DEF Encrypt
    <2>2. QED
      BY <1>7, <2>1, StopStep DEF Encrypt, Verdicts
  <1>8. CASE NewStarts
    BY <1>8 DEF NewStarts, Goto, Commands
  <1>9. CASE Create
    BY <1>9, StopStep DEF Create, Verdicts
  <1>10. CASE CleanStarts
    <2>1. CASE dec.is = "absent"
      BY <1>10, <2>1, StopStep DEF CleanStarts, Verdicts
    <2>2. CASE dec.is # "absent"
      BY <1>10, <2>2 DEF CleanStarts, Goto, Commands
    <2>3. QED
      BY <2>1, <2>2
  <1>11. CASE Remove
    BY <1>11, StopStep DEF Remove, Verdicts
  <1>12. CASE Open
    BY <1>12 DEF Open, Goto, Commands
  <1>13. QED
    BY <1>1, <1>2, <1>3, <1>4, <1>5, <1>6, <1>7, <1>8, <1>9, <1>10, <1>11, <1>12
    DEF Recipe

\* A changed value makes another whole file.
LEMMA NewValueStep ==
    ASSUME TypeOK, NEW name \in Names, NEW text \in Content, version < MaxVersion
    PROVE  /\ [text EXCEPT ![name] = version + 1] \in Content
           /\ Whole([text EXCEPT ![name] = version + 1]) \in Files
           /\ version + 1 \in 0..MaxVersion
  BY VersionAssumption DEF TypeOK, Files, Content, Whole

\* The three that change one keep the shape of the state.
LEMMA TypeChanges ==
    ASSUME TypeOK, NEW name \in Names, Changes(name) PROVE TypeOK'
  <1>1. enc.text \in Content /\ dec.text \in Content /\ mine \in Content
        /\ Blank \in Content
    BY VersionAssumption DEF TypeOK, Files, Blank, Content
  <1>2. CASE EditCiphertext(name)
    BY <1>1, <1>2, NewValueStep DEF EditCiphertext, NewValue, TypeOK, promises
  <1>3. CASE EditPlaintext(name)
    BY <1>1, <1>3, NewValueStep DEF EditPlaintext, NewValue, TypeOK
  <1>4. CASE CiphertextArrives(name)
    BY <1>1, <1>4, NewValueStep DEF CiphertextArrives, TypeOK, promises
  <1>5. QED
    BY <1>2, <1>3, <1>4 DEF Changes

\* Every step does.
LEMMA TypeNext == TypeOK /\ [Next]_vars => TypeOK'
  <1> SUFFICES ASSUME TypeOK, [Next]_vars PROVE TypeOK'
    OBVIOUS
  <1>1. CASE Recipe
    BY <1>1, TypeRecipe
  <1>2. ASSUME NEW name \in Names, Changes(name) PROVE TypeOK'
    BY <1>2, TypeChanges
  <1>3. CASE UNCHANGED vars
    BY <1>3 DEF vars, promises, TypeOK
  <1>4. QED
    BY <1>1, <1>2, <1>3 DEF Next

\* The files keep their shape, and only a running recipe has a temporary one.
THEOREM TypeCorrect == Spec => []TypeOK
  BY TypeInit, TypeNext, PTL DEF Spec

-------------------------------------------------------------------------------
\* What EditsSurvive rests on: no value is newer than the newest, no env-encrypt has
\* succeeded as long as the ciphertext is still to be made, and env-clean has
\* overwritten the plaintext that it removes.
Dated(text) == \A name \in Names : text[name] <= version

EditsInv ==
    /\ TypeOK
    /\ Dated(enc.text) /\ Dated(dec.text) /\ Dated(tmp.text) /\ Dated(filed)
    /\ pc \in {"open", "open_new", "encrypt", "create"} =>
          \A name \in Names : filed[name] = 0
    /\ pc = "rm" => dec.is = "broken"
    /\ EditsSurvive

\* Nothing is promised at first.
LEMMA EditsInit == Init => EditsInv
  <1> SUFFICES ASSUME Init PROVE EditsInv
    OBVIOUS
  <1>1. \A name \in Names : Blank[name] = 0
    BY DEF Blank
  <1>2. /\ enc.text = Blank /\ dec.text = Blank /\ tmp.text = Blank
        /\ mine = Blank /\ filed = Blank /\ version = 0 /\ pc = "idle"
    BY DEF Init, Absent, Whole
  <1>3. QED
    BY <1>1, <1>2, TypeInit DEF EditsInv, Dated, EditsSurvive

\* A command of a recipe: it may replace the plaintext on request, and a success
\* of env-encrypt has written the whole of it.
LEMMA EditsRecipe == ASSUME EditsInv, Recipe PROVE EditsInv'
  <1>1. TypeOK' /\ version' = version /\ \A name \in Names : Blank[name] = 0
    <2>1. version' = version
      BY DEF Recipe, Fail, DecryptStarts, Decrypt, Move, EncryptStarts, EditByCopy,
             Encrypt, NewStarts, Open, Create, CleanStarts, Remove
    <2>2. QED
      BY <2>1, TypeRecipe DEF EditsInv, Blank
  <1>2. version \in Nat /\ enc.text \in Content /\ dec.text \in Content
    BY VersionAssumption DEF EditsInv, TypeOK, Files
  <1>3. CASE Fail \/ DecryptStarts \/ Decrypt
    <2>1. /\ UNCHANGED <<enc, dec, mine, filed>>
          /\ tmp'.text \in {enc.text, Blank, tmp.text}
          /\ pc' \in {"idle", "decrypt", "mv"}
      BY <1>3 DEF Fail, DecryptStarts, Decrypt, Stop, Goto, promises, Absent, Broken
    <2>2. Dated(tmp.text)' /\ Dated(enc.text)' /\ Dated(dec.text)' /\ Dated(filed)'
      BY <1>1, <1>2, <2>1 DEF EditsInv, Dated
    <2>3. QED
      BY <1>1, <2>1, <2>2 DEF EditsInv, EditsSurvive
  <1>4. CASE Move
    <2>1. /\ enc' = enc /\ dec' = tmp /\ tmp'.text = Blank /\ mine' = Blank
          /\ filed' = filed /\ pc' = "idle"
      BY <1>4 DEF Move, Absent
    <2>2. Dated(tmp.text)' /\ Dated(enc.text)' /\ Dated(dec.text)' /\ Dated(filed)'
      BY <1>1, <1>2, <2>1 DEF EditsInv, Dated
    <2>3. QED
      BY <1>1, <2>1, <2>2 DEF EditsInv, EditsSurvive
  <1>5. CASE EncryptStarts \/ NewStarts
    <2>1. /\ UNCHANGED <<enc, dec, tmp, mine, filed>>
          /\ (pc' = "edit" \/ (pc' \in {"open", "open_new"} /\ enc.is = "absent"))
      BY <1>5 DEF EncryptStarts, NewStarts, Goto, promises
    <2>2. Dated(tmp.text)' /\ Dated(enc.text)' /\ Dated(dec.text)' /\ Dated(filed)'
      BY <1>1, <2>1 DEF EditsInv, Dated
    <2>3. enc.is = "absent" => \A name \in Names : filed[name] = 0
      BY DEF EditsInv, EditsSurvive
    <2>4. QED
      BY <1>1, <2>1, <2>2, <2>3 DEF EditsInv, EditsSurvive
  <1>6. CASE EditByCopy \/ Encrypt
    <2>1. /\ dec' = dec /\ tmp'.text = Blank /\ mine' = mine /\ pc' = "idle"
          /\ \/ UNCHANGED <<enc, filed>>
             \/ dec.is = "whole" /\ enc' = dec /\ filed' = dec.text
      BY <1>6 DEF EditByCopy, Encrypt, Stop, Absent
    <2>2. Dated(tmp.text)' /\ Dated(enc.text)' /\ Dated(dec.text)' /\ Dated(filed)'
      BY <1>1, <1>2, <2>1 DEF EditsInv, Dated
    <2>3. EditsSurvive'
      BY <1>2, <2>1 DEF EditsInv, EditsSurvive, Content
    <2>4. QED
      BY <1>1, <2>1, <2>2, <2>3 DEF EditsInv
  <1>7. CASE Open \/ Create
    <2>1. /\ enc'.text = Blank /\ dec' = dec /\ tmp'.text \in {tmp.text, Blank}
          /\ UNCHANGED <<mine, filed>>
          /\ pc \in {"open", "open_new", "create"}
          /\ pc' \in {"encrypt", "create", "idle"}
      BY <1>7 DEF Open, Create, Stop, Goto, Absent, Broken, Whole, promises
    <2>2. Dated(tmp.text)' /\ Dated(enc.text)' /\ Dated(dec.text)' /\ Dated(filed)'
      BY <1>1, <1>2, <2>1 DEF EditsInv, Dated
    <2>3. \A name \in Names : filed'[name] = 0
      BY <2>1 DEF EditsInv
    <2>4. QED
      BY <1>1, <2>1, <2>2, <2>3 DEF EditsInv, EditsSurvive
  <1>8. CASE CleanStarts \/ Remove
    <2>1. /\ enc' = enc /\ tmp'.text \in {tmp.text, Blank} /\ filed' = filed
          /\ dec'.text \in {dec.text, Blank}
          /\ \/ dec' = dec /\ mine' = mine
             \/ mine' = Blank
             \/ pc = "rm" /\ mine' = mine
          /\ (pc' = "idle" \/ (pc' = "rm" /\ dec'.is = "broken"))
      BY <1>8 DEF CleanStarts, Remove, Stop, Goto, Absent, Broken, promises
    <2>2. Dated(tmp.text)' /\ Dated(enc.text)' /\ Dated(dec.text)' /\ Dated(filed)'
      BY <1>1, <1>2, <2>1 DEF EditsInv, Dated
    <2>3. QED
      BY <1>1, <2>1, <2>2 DEF EditsInv, EditsSurvive
  <1>9. QED
    BY <1>3, <1>4, <1>5, <1>6, <1>7, <1>8 DEF Recipe

\* A value that is changed is newer than what was filed of it.
LEMMA EditsChanges ==
    ASSUME EditsInv, NEW name \in Names, Changes(name) PROVE EditsInv'
  <1>1. TypeOK' /\ version' = version + 1 /\ version \in Nat
    BY TypeChanges, VersionAssumption
    DEF EditsInv, TypeOK, Changes, EditCiphertext, EditPlaintext, CiphertextArrives, NewValue
  <1>2. /\ enc.text \in Content /\ dec.text \in Content /\ tmp.text \in Content
        /\ mine \in Content /\ filed \in Content
    BY DEF EditsInv, TypeOK, Files
  <1>3. \A n \in Names : /\ Blank[n] = 0
                         /\ enc.text[n] \in Nat /\ dec.text[n] \in Nat
                         /\ tmp.text[n] \in Nat /\ filed[n] \in Nat
    BY <1>2, VersionAssumption DEF Content, Blank
  <1>4. CASE EditCiphertext(name)
    <2>1. /\ enc.is = "whole" /\ enc'.is = "whole"
          /\ enc'.text = [enc.text EXCEPT ![name] = version + 1]
          /\ UNCHANGED <<dec, tmp, pc, mine, filed>>
      BY <1>4 DEF EditCiphertext, NewValue, Whole, promises
    <2>2. \A n \in Names : enc'.text[n] \in {enc.text[n], version + 1}
                          /\ (n # name => enc'.text[n] = enc.text[n])
                          /\ enc'.text[name] = version + 1
      BY <1>2, <2>1 DEF Content
    <2>3. Dated(tmp.text)' /\ Dated(enc.text)' /\ Dated(dec.text)' /\ Dated(filed)'
      BY <1>1, <1>3, <2>1, <2>2 DEF EditsInv, Dated
    <2>4. EditsSurvive'
      BY <1>1, <1>3, <2>1, <2>2 DEF EditsInv, EditsSurvive, Dated
    <2>5. QED
      BY <1>1, <2>1, <2>3, <2>4 DEF EditsInv
  <1>5. CASE EditPlaintext(name)
    <2>1. /\ dec.is = "whole" /\ dec'.is = "whole"
          /\ dec'.text = [dec.text EXCEPT ![name] = version + 1]
          /\ mine' = [mine EXCEPT ![name] = version + 1]
          /\ UNCHANGED <<enc, tmp, pc, filed>>
      BY <1>5 DEF EditPlaintext, NewValue, Whole
    <2>2. \A n \in Names :
             \/ dec'.text[n] = version + 1 /\ mine'[n] = version + 1
             \/ dec'.text[n] = dec.text[n] /\ mine'[n] = mine[n]
      BY <1>2, <2>1 DEF Content
    <2>3. Dated(tmp.text)' /\ Dated(enc.text)' /\ Dated(dec.text)' /\ Dated(filed)'
      BY <1>1, <1>3, <2>1, <2>2 DEF EditsInv, Dated
    <2>4. EditsSurvive'
      BY <2>1, <2>2 DEF EditsInv, EditsSurvive
    <2>5. QED
      BY <1>1, <2>1, <2>3, <2>4 DEF EditsInv
  <1>6. CASE CiphertextArrives(name)
    <2>1. /\ enc.is = "absent" /\ enc'.text = [Blank EXCEPT ![name] = version + 1]
          /\ UNCHANGED <<dec, tmp, pc, mine, filed>>
      BY <1>6 DEF CiphertextArrives, Whole, promises
    <2>2. \A n \in Names : enc'.text[n] \in {0, version + 1}
      BY <2>1 DEF Blank
    <2>3. Dated(tmp.text)' /\ Dated(enc.text)' /\ Dated(dec.text)' /\ Dated(filed)'
      BY <1>1, <1>3, <2>1, <2>2 DEF EditsInv, Dated
    <2>4. \A n \in Names : filed[n] = 0
      BY <2>1 DEF EditsInv, EditsSurvive
    <2>5. QED
      BY <1>1, <2>1, <2>3, <2>4 DEF EditsInv, EditsSurvive
  <1>7. QED
    BY <1>4, <1>5, <1>6 DEF Changes

\* Every step keeps the promises.
LEMMA EditsNext == EditsInv /\ [Next]_vars => EditsInv'
  <1> SUFFICES ASSUME EditsInv, [Next]_vars PROVE EditsInv'
    OBVIOUS
  <1>1. CASE Recipe
    BY <1>1, EditsRecipe
  <1>2. ASSUME NEW name \in Names, Changes(name) PROVE EditsInv'
    BY <1>2, EditsChanges
  <1>3. CASE UNCHANGED vars
    <2>1. TypeOK'
      BY <1>3, TypeNext DEF EditsInv
    <2>2. UNCHANGED <<enc, dec, tmp, pc, version, mine, filed>>
      BY <1>3 DEF vars, promises
    <2>3. QED
      BY <2>1, <2>2 DEF EditsInv, Dated, EditsSurvive
  <1>4. QED
    BY <1>1, <1>2, <1>3 DEF Next

\* EditsInv holds in every reachable state.
LEMMA EditsHold == Spec => []EditsInv
  BY EditsInit, EditsNext, PTL DEF Spec

\* No step of the container touches the files: what is proved of the recipes alone
\* may be said of the two modules in one run.  It says no more than that.
LEMMA RecipesAreEnvFiles == MCSpec => Spec
  <1>1. MCInit => Init
    BY DEF MCInit
  <1>2. [MCNext]_<<vars, containerVars, end>> => [Next]_vars
    BY DEF MCNext
  <1>3. QED
    BY <1>1, <1>2, PTL DEF MCSpec, Spec

\* No recipe that fails or is interrupted loses an edit, of the plaintext or of what
\* was encrypted.
THEOREM EditsSurviveHolds == MCSpec => []EditsSurvive
  <1>1. EditsInv => EditsSurvive
    BY DEF EditsInv
  <1>2. QED
    BY <1>1, EditsHold, RecipesAreEnvFiles, PTL

-------------------------------------------------------------------------------
\* Entrypoint.
\* What is read from a line is a value.
LEMMA FieldIsValue ==
    \A raw \in C!Raws : C!Field(raw) \in C!Values /\ C!Field(raw) # C!Unset
  BY DEF C!Raws, C!Field, C!Values, C!Unset

\* What the script has at each step: the container's values, and while it reads,
\* what the lines so far have set and nothing else.
EntryInv ==
    /\ file \in Seq(C!Lines) /\ read \in 0 .. Len(file)
    /\ step \in {"start", "reading", "exec", "exited"}
    /\ \A name \in Names \ C!Own :
          container[name] # C!Unset => env[name] = container[name]
    /\ step = "start" => read = 0 /\ \A name \in Names \ C!Own : env[name] = container[name]
    /\ step = "reading" =>
          /\ sops /\ readable
          /\ \A i \in 1 .. read : C!FirstOfItsName(i) /\ container[file[i].key] = C!Unset
                => env[file[i].key] = C!Field(file[i].raw)
          /\ \A name \in Names \ C!Own :
                container[name] = C!Unset /\ (\A i \in 1 .. read : file[i].key # name)
                => env[name] = C!Unset
    /\ C!AllOrNothing

\* The script starts with no line read.
LEMMA EntryInit == C!Init => EntryInv
  <1> SUFFICES ASSUME C!Init PROVE EntryInv
    OBVIOUS
  <1>1. PICK n \in 0 .. MaxLines : file \in [1 .. n -> C!Lines]
    BY DEF C!Init
  <1>2. file \in Seq(C!Lines)
    BY <1>1
  <1>3. \A name \in Names \ C!Own : env[name] = container[name]
    BY DEF C!Init, C!Own
  <1>4. QED
    BY <1>2, <1>3 DEF C!Init, EntryInv, C!AllOrNothing

\* A turn of the loop: the first line of a name sets what the container left open.
LEMMA ReadLineInv == EntryInv /\ C!ReadLine => EntryInv'
  <1> SUFFICES ASSUME EntryInv, C!ReadLine PROVE EntryInv'
    OBVIOUS
  <1> DEFINE line == file[read + 1]
  <1>1. /\ read \in Nat /\ read + 1 \in 1 .. Len(file) /\ read' = read + 1
        /\ step = "reading" /\ step' = "reading"
        /\ UNCHANGED <<container, present, supplied, required, sops, readable, file>>
    BY DEF C!ReadLine, C!Fixed, EntryInv
  <1>2. \A name \in Names :
           env'[name] = IF name = line.key /\ name \notin C!Own /\ env[name] = C!Unset
                        THEN C!Field(line.raw) ELSE env[name]
    BY DEF C!ReadLine, C!Free
  <1>3. line \in C!Lines
    BY <1>1 DEF EntryInv
  <1>4. line.raw \in C!Raws
    BY <1>3 DEF C!Lines
  <1>5. \A name \in Names \ C!Own :
           container'[name] # C!Unset => env'[name] = container'[name]
    BY <1>1, <1>2 DEF EntryInv
  <1>6. ASSUME NEW i \in 1 .. read + 1, C!FirstOfItsName(i),
               container[file[i].key] = C!Unset
        PROVE  env'[file[i].key] = C!Field(file[i].raw)
    <2>1. file[i].key \in Names /\ file[i].key \notin C!Own
      BY <1>6 DEF C!FirstOfItsName
    <2>2. CASE i = read + 1
      <3>1. \A j \in 1 .. read : file[j].key # file[i].key
        BY <1>1, <1>6, <2>2 DEF C!FirstOfItsName
      <3>2. env[file[i].key] = C!Unset
        BY <1>1, <1>6, <2>1, <3>1 DEF EntryInv
      <3>3. QED
        BY <1>2, <2>1, <2>2, <3>2
    <2>3. CASE i \in 1 .. read
      <3>1. env[file[i].key] = C!Field(file[i].raw)
        BY <1>1, <1>6, <2>3 DEF EntryInv
      <3>2. i \in 1 .. Len(file) /\ file \in Seq(C!Lines)
        BY <1>1, <2>3 DEF EntryInv
      <3>3. file[i] \in C!Lines
        BY <3>2
      <3>4. env[file[i].key] # C!Unset
        BY <3>1, <3>3, FieldIsValue DEF C!Lines
      <3>5. QED
        BY <1>2, <2>1, <3>1, <3>4
    <2>4. QED
      BY <1>1, <2>2, <2>3
  <1>7. ASSUME NEW name \in Names \ C!Own, container[name] = C!Unset,
               \A i \in 1 .. read + 1 : file[i].key # name
        PROVE  env'[name] = C!Unset
    <2>1. line.key # name /\ \A i \in 1 .. read : file[i].key # name
      BY <1>1, <1>7
    <2>2. env[name] = C!Unset
      BY <1>1, <1>7, <2>1 DEF EntryInv
    <2>3. QED
      BY <1>2, <2>1, <2>2
  <1>8. C!AllOrNothing'
    BY <1>1 DEF C!AllOrNothing
  <1>9. \A i : C!FirstOfItsName(i)' <=> C!FirstOfItsName(i)
    BY <1>1 DEF C!FirstOfItsName
  <1>10. QED
    BY <1>1, <1>5, <1>6, <1>7, <1>8, <1>9 DEF EntryInv

\* Every step of the script preserves the invariant.
LEMMA EntryNext == EntryInv /\ [C!Next]_(C!vars) => EntryInv'
  <1> SUFFICES ASSUME EntryInv, [C!Next]_(C!vars) PROVE EntryInv'
    OBVIOUS
  <1>1. CASE C!RunUnchanged \/ C!RefuseKeyless
    BY <1>1 DEF C!RunUnchanged, C!RefuseKeyless, C!Goto, C!Fixed, EntryInv, C!AllOrNothing
  <1>2. CASE C!Decrypt
    <2>1. /\ step = "start" /\ read = 0 /\ read' = 0
          /\ (step' = "exited" \/ (step' = "reading" /\ sops /\ readable))
          /\ UNCHANGED <<env, container, present, supplied, required, sops, readable, file>>
      BY <1>2 DEF C!Decrypt, C!Fixed, EntryInv
    <2>2. C!AllOrNothing'
      BY <2>1 DEF C!AllOrNothing
    <2>3. QED
      BY <2>1, <2>2 DEF EntryInv
  <1>3. CASE C!Exec
    <2>1. /\ step = "reading" /\ step' = "exec" /\ read = Len(file)
          /\ UNCHANGED <<read, container, present, supplied, required, sops, readable, file>>
      BY <1>3 DEF C!Exec, C!Fixed
    <2>2. \A name \in Names \ C!Own : env'[name] = env[name]
      BY <1>3 DEF C!Exec, C!LeftOf, C!Own
    <2>3. C!AllOrNothing'
      <3>1. \A i \in DOMAIN file : C!FirstOfItsName(i) /\ container[file[i].key] = C!Unset
               => env'[file[i].key] = C!Field(file[i].raw)
        <4>1. DOMAIN file = 1 .. read
          BY <2>1 DEF EntryInv
        <4>2. QED
          BY <2>1, <2>2, <4>1 DEF EntryInv, C!FirstOfItsName
      <3>2. \A i : C!FirstOfItsName(i)' <=> C!FirstOfItsName(i)
        BY <2>1 DEF C!FirstOfItsName
      <3>3. QED
        BY <2>1, <3>1, <3>2 DEF EntryInv, C!AllOrNothing
    <2>4. QED
      BY <2>1, <2>2, <2>3 DEF EntryInv
  <1>4. CASE C!Finished \/ UNCHANGED C!vars
    <2>1. UNCHANGED <<container, env, present, supplied, required, sops, readable, file,
                      read, step>>
      BY <1>4 DEF C!Finished, C!vars
    <2>2. \A i : C!FirstOfItsName(i)' <=> C!FirstOfItsName(i)
      BY <2>1 DEF C!FirstOfItsName
    <2>3. QED
      BY <2>1, <2>2 DEF EntryInv, C!AllOrNothing
  <1>5. QED
    BY <1>1, <1>2, <1>3, <1>4, ReadLineInv DEF C!Next

\* No recipe touches the container: what is proved of the script alone may be said
\* of the two modules in one run.  It says no more than that.
LEMMA ContainerIsEntrypoint == MCSpec => C!Spec
  <1>1. MCInit => C!Init
    BY DEF MCInit
  <1>2. [MCNext]_<<vars, containerVars, end>> => [C!Next]_(C!vars)
    BY DEF MCNext, containerVars, C!vars
  <1>3. QED
    BY <1>1, <1>2, PTL DEF MCSpec, C!Spec

\* The invariant of the script holds, for any file and any container.
LEMMA EntryHolds == MCSpec => []EntryInv
  BY ContainerIsEntrypoint, EntryInit, EntryNext, PTL DEF C!Spec

\* What the container sets is what the application sees, an empty value as well.
THEOREM ContainerWinsHolds == MCSpec => []ContainerWins
  <1>1. EntryInv => ContainerWins
    BY DEF EntryInv, ContainerWins, C!ContainerWins
  <1>2. QED
    BY <1>1, EntryHolds, PTL

\* With a key and a ciphertext the application has every variable of it or does
\* not start.
THEOREM AllOrNothingHolds == MCSpec => []AllOrNothing
  <1>1. EntryInv => AllOrNothing
    BY DEF EntryInv, AllOrNothing
  <1>2. QED
    BY <1>1, EntryHolds, PTL

===============================================================================
