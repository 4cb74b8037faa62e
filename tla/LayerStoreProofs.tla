-------------------------- MODULE LayerStoreProofs --------------------------
(***************************************************************************)
(* What the pushes and the prunes promise for any number of clients,       *)
(* images, layers and incidents.                                           *)
(***************************************************************************)
EXTENDS LayerStore, FiniteSetTheorems, TLAPS

(* A push works on layers of its own image.                                *)
OwnLayers == \A c \in Clients : push[c].todo \subseteq Image[c]

(* Only missing layers are uploaded, by a push that is uploading, and an   *)
(* attempt that is under way is one of those allowed.                      *)
UploadsListed ==
    \A c \in Clients, d \in Layers :
        up[c][d].stage # "none" => /\ push[c].state = "uploading"
                                   /\ d \in push[c].todo
                                   /\ up[c][d].tries <= Retries

(* A layer that was promised within the hour was used within the hour, or  *)
(* a prune that had listed it before has deleted its record since.         *)
PromisesRecent ==
    \A c \in Clients : \A d \in push[c].promise : record[d] = None \/ record[d].recent

(* The inductive invariant.                                                *)
IInv == TypeOK /\ OwnLayers /\ UploadsListed /\ PromisesRecent

------------------------------------------------------------------------------
(* Types, variable by variable                                             *)

LEMMA DigestsType == \A c \in Clients : Digests(c) = Image[c] /\ Image[c] \in SUBSET Layers
BY ImageAssumption DEF Digests

LEMMA GotoFacts ==
    ASSUME TypeOK, NEW c \in Clients, NEW state \in PushStates, Goto(c, state)
    PROVE  /\ push' \in [Clients -> Pushes]
           /\ push'[c].state = state
           /\ \A b \in Clients \ {c} : push'[b] = push[b]
           /\ \A b \in Clients : /\ push'[b].todo = push[b].todo
                                 /\ push'[b].promise = push[b].promise
BY DEF Goto, TypeOK, Pushes

LEMMA PushUpdates ==
    ASSUME push \in [Clients -> Pushes], NEW c \in Clients,
           NEW state \in PushStates, NEW these \in SUBSET Layers
    PROVE  /\ [push EXCEPT ![c].state = state, ![c].todo = these] \in [Clients -> Pushes]
           /\ [push EXCEPT ![c].state = state, ![c].promise = these]
                  \in [Clients -> Pushes]
BY DEF Pushes

LEMMA PushType ==
    ASSUME TypeOK, [Next]_vars
    PROVE  push' \in [Clients -> Pushes]
<1>1. push \in [Clients -> Pushes]
    BY DEF TypeOK
<1>2. CASE UNCHANGED push
    BY <1>1, <1>2
<1>3. ASSUME NEW c \in Clients, NEW state \in PushStates, Goto(c, state)
      PROVE  push' \in [Clients -> Pushes]
    BY <1>3, GotoFacts
<1>4. ASSUME NEW c \in Clients,
             CheckLayers(c) \/ AnswerCheck(c) \/ RecheckAssembly(c) \/ CopyLayer(c)
             \/ FinishTar(c) \/ LoadImage(c) \/ CheckAssembly(c)
      PROVE  push' \in [Clients -> Pushes]
    <2> DEFINE missing == {d \in Digests(c) : record[d] = None}
    <2>0. /\ {"touch", "preflight", "copy", "full", "load"} \subseteq PushStates
          /\ missing \in SUBSET Layers /\ Digests(c) \ push[c].todo \in SUBSET Layers
          /\ Image[c] \in SUBSET Layers
        BY DigestsType DEF PushStates
    <2>1. CASE CheckLayers(c)
        BY <1>1, <2>0, <2>1, PushUpdates DEF CheckLayers
    <2>2. CASE AnswerCheck(c)
        BY <1>1, <2>0, <2>2, PushUpdates DEF AnswerCheck
    <2>3. CASE CheckAssembly(c)
        BY <1>1, <2>3, DigestsType DEF CheckAssembly, Goto, Pushes, PushStates
    <2>4. CASE RecheckAssembly(c)
        <3> DEFINE state == IF /\ prune[c].pruned /\ Image[c] \subseteq file
                               /\ Fits(0, Size(c)) THEN "copy" ELSE "full"
        <3>1. push' = [push EXCEPT ![c].state = state, ![c].todo = Image[c]]
            BY <2>4 DEF RecheckAssembly
        <3>2. state \in PushStates
            BY <2>0
        <3> HIDE DEF state
        <3> QED BY <1>1, <2>0, <3>1, <3>2, PushUpdates
    <2>5. CASE CopyLayer(c)
        BY <1>1, <2>5 DEF CopyLayer, Pushes, PushStates
    <2>6. CASE FinishTar(c)
        BY <1>1, <2>0, <2>6, PushUpdates DEF FinishTar
    <2>7. CASE LoadImage(c)
        BY <1>1, <2>7 DEF LoadImage, Pushes, PushStates
    <2> QED BY <1>4, <2>1, <2>2, <2>3, <2>4, <2>5, <2>6, <2>7
<1>5. ASSUME NEW c \in Clients,
             Preflight(c) \/ PreflightRefused(c) \/ GiveUpLayers(c) \/ Uploaded(c) \/ EndPush(c)
             \/ FailToLoad(c) \/ PreflightFull(c) \/ FullRefused(c) \/ SendImage(c)
      PROVE  push' \in [Clients -> Pushes]
    <2>1. push' = push \/ \E state \in PushStates : Goto(c, state)
        BY <1>5 DEF Preflight, PreflightRefused, GiveUpLayers, Uploaded, EndPush,
                    FailToLoad,
                    PreflightFull, FullRefused, SendImage, PushStates
    <2> QED BY <1>2, <1>3, <2>1
<1>6. ASSUME NEW c \in Clients, NEW d \in Layers, SaveLayer(c, d)
      PROVE  push' \in [Clients -> Pushes]
    BY <1>1, <1>6 DEF SaveLayer, Pushes
<1>7. ASSUME HourPasses
      PROVE  push' \in [Clients -> Pushes]
    BY <1>1, <1>7 DEF HourPasses, Pushes
<1>8. CASE \/ \E c \in Clients, d \in Layers :
                  BeginUpload(c, d) \/ NameLayer(c, d) \/ BreakUpload(c, d)
                  \/ FailToSave(c, d)
           \/ MaintenancePrune
           \/ \E p \in Pruners : \/ ListImages(p) \/ ListLayers(p) \/ DeleteRecord(p)
                                 \/ KeepRecord(p) \/ EndPrune(p)
                                 \/ \E d \in Layers : RemoveDirectory(p, d)
    BY <1>2, <1>8 DEF BeginUpload, NameLayer, BreakUpload, FailToSave, MaintenancePrune,
          ListImages, ListLayers, DeleteRecord, KeepRecord, EndPrune, RemoveDirectory
<1> QED BY <1>2, <1>4, <1>5, <1>6, <1>7, <1>8 DEF Next, vars

LEMMA StepOwn ==
    ASSUME TypeOK, OwnLayers, [Next]_vars
    PROVE  OwnLayers'
<1>1. push \in [Clients -> Pushes]
    BY DEF TypeOK
<1>2. ASSUME \A b \in Clients : push'[b].todo \subseteq push[b].todo
      PROVE  OwnLayers'
    BY <1>2 DEF OwnLayers
<1>3. ASSUME NEW c \in Clients, push'[c].todo \subseteq Image[c],
             \A b \in Clients \ {c} : push'[b] = push[b]
      PROVE  OwnLayers'
    BY <1>3 DEF OwnLayers
<1>4. ASSUME NEW c \in Clients, CheckLayers(c)
      PROVE  OwnLayers'
    <2>1. push'[c].todo = {d \in Digests(c) : record[d] = None}
        BY <1>1, <1>4 DEF CheckLayers, Pushes
    <2>2. \A b \in Clients \ {c} : push'[b] = push[b]
        BY <1>1, <1>4 DEF CheckLayers
    <2> QED BY <1>3, <2>1, <2>2, DigestsType
<1>5. ASSUME NEW c \in Clients, CheckAssembly(c) \/ RecheckAssembly(c)
      PROVE  OwnLayers'
    <2>1. push'[c].todo = push[c].todo \/ push'[c].todo = Image[c]
        BY <1>1, <1>5 DEF CheckAssembly, RecheckAssembly, Goto, Pushes
    <2>2. \A b \in Clients \ {c} : push'[b] = push[b]
        BY <1>1, <1>5 DEF CheckAssembly, RecheckAssembly, Goto
    <2> QED BY <1>3, <2>1, <2>2 DEF OwnLayers
<1>6. ASSUME NEW c \in Clients,
             Preflight(c) \/ PreflightRefused(c) \/ GiveUpLayers(c) \/ Uploaded(c) \/ EndPush(c)
             \/ FailToLoad(c) \/ PreflightFull(c) \/ FullRefused(c) \/ SendImage(c)
      PROVE  OwnLayers'
    <2>1. push' = push \/ \E state \in PushStates : Goto(c, state)
        BY <1>6 DEF Preflight, PreflightRefused, GiveUpLayers, Uploaded, EndPush,
                    FailToLoad,
                    PreflightFull, FullRefused, SendImage, PushStates
    <2>2. \A b \in Clients : push'[b].todo = push[b].todo
        BY <2>1, GotoFacts
    <2> QED BY <1>2, <2>2
<1>7. ASSUME NEW c \in Clients,
             AnswerCheck(c) \/ CopyLayer(c) \/ FinishTar(c) \/ LoadImage(c)
             \/ \E d \in Layers : SaveLayer(c, d)
      PROVE  OwnLayers'
    <2>1. \A b \in Clients : push'[b].todo \subseteq push[b].todo
        <3>1. CASE AnswerCheck(c) \/ FinishTar(c) \/ LoadImage(c)
            BY <1>1, <3>1 DEF AnswerCheck, FinishTar, LoadImage, Pushes
        <3>2. CASE CopyLayer(c)
            BY <1>1, <3>2 DEF CopyLayer, Pushes
        <3>3. ASSUME NEW d \in Layers, SaveLayer(c, d)
              PROVE  \A b \in Clients : push'[b].todo \subseteq push[b].todo
            BY <1>1, <3>3 DEF SaveLayer, Pushes
        <3> QED BY <1>7, <3>1, <3>2, <3>3
    <2> QED BY <1>2, <2>1
<1>8. CASE HourPasses
    <2>1. \A b \in Clients : push'[b].todo = push[b].todo
        BY <1>1, <1>8 DEF HourPasses, Pushes
    <2> QED BY <1>2, <2>1
<1>9. CASE UNCHANGED push
    BY <1>2, <1>9
<1>10. CASE \/ \E c \in Clients, d \in Layers :
                  BeginUpload(c, d) \/ NameLayer(c, d) \/ BreakUpload(c, d)
                  \/ FailToSave(c, d)
            \/ MaintenancePrune
            \/ \E p \in Pruners : \/ ListImages(p) \/ ListLayers(p) \/ DeleteRecord(p)
                                  \/ KeepRecord(p) \/ EndPrune(p)
                                  \/ \E d \in Layers : RemoveDirectory(p, d)
    BY <1>9, <1>10 DEF BeginUpload, NameLayer, BreakUpload, FailToSave, MaintenancePrune,
          ListImages, ListLayers, DeleteRecord, KeepRecord, EndPrune, RemoveDirectory
<1> QED BY <1>4, <1>5, <1>6, <1>7, <1>8, <1>9, <1>10 DEF Next, vars

------------------------------------------------------------------------------
(* Uploads                                                                 *)

UploadsTyped ==
    /\ up \in [Clients -> [Layers -> Uploads]]
    /\ temp \subseteq Clients \X Layers
    /\ \A c \in Clients, d \in Layers : <<c, d>> \in temp => up[c][d].stage = "writing"

(* One upload goes on; its push goes on as well, and lists it.             *)
LEMMA UploadStep ==
    ASSUME TypeOK, UploadsListed, push' \in [Clients -> Pushes],
           NEW c \in Clients, NEW d \in Layers, NEW new \in Uploads,
           up' = [up EXCEPT ![c][d] = new],
           temp' \subseteq temp \cup {<<c, d>>},
           <<c, d>> \in temp' => new.stage = "writing",
           new.stage # "none" => push[c].state = "uploading" /\ d \in push[c].todo
                                 /\ new.tries <= Retries,
           \A b \in Clients : push'[b].state = push[b].state,
           \A b \in Clients, e \in Layers :
               <<b, e>> # <<c, d>> /\ e \in push[b].todo => e \in push'[b].todo,
           new.stage # "none" => push' = push
    PROVE  UploadsTyped' /\ UploadsListed'
<1>1. up \in [Clients -> [Layers -> Uploads]] /\ temp \subseteq Clients \X Layers
    BY DEF TypeOK
<1>2. up' \in [Clients -> [Layers -> Uploads]] /\ temp' \subseteq Clients \X Layers
    BY <1>1
<1>3. up'[c][d] = new
    BY <1>1
<1>4. \A b \in Clients, e \in Layers : <<b, e>> # <<c, d>> => up'[b][e] = up[b][e]
    BY <1>1
<1>5. UploadsTyped'
    <2> SUFFICES ASSUME NEW b \in Clients, NEW e \in Layers, <<b, e>> \in temp'
                 PROVE  up'[b][e].stage = "writing"
        BY <1>2 DEF UploadsTyped
    <2>1. CASE <<b, e>> = <<c, d>>
        BY <1>3, <2>1
    <2>2. CASE <<b, e>> # <<c, d>>
        BY <1>4, <2>2 DEF TypeOK
    <2> QED BY <2>1, <2>2
<1>6. UploadsListed'
    BY <1>3, <1>4 DEF UploadsListed
<1> QED BY <1>5, <1>6

(* No upload goes on, and no push whose uploads are under way goes on to   *)
(* another state.                                                          *)
LEMMA UploadsRest ==
    ASSUME TypeOK, UploadsListed, up' = up, temp' \subseteq temp,
           \A b \in Clients : \/ push'[b].state = push[b].state /\ push'[b].todo = push[b].todo
                              \/ push[b].state # "uploading"
                              \/ push[b].todo = {}
    PROVE  UploadsTyped' /\ UploadsListed'
BY DEF TypeOK, UploadsTyped, UploadsListed

LEMMA StepUploads ==
    ASSUME TypeOK, UploadsListed, [Next]_vars
    PROVE  UploadsTyped' /\ UploadsListed'
<1>1. push \in [Clients -> Pushes] /\ up \in [Clients -> [Layers -> Uploads]]
    BY DEF TypeOK
<1>2. push' \in [Clients -> Pushes]
    BY PushType
<1>3. ASSUME NEW c \in Clients, NEW d \in Layers,
             up[c][d].stage # "none", FailedUpload(c, d), push' = push,
             temp' = temp \ {<<c, d>>}
      PROVE  UploadsTyped' /\ UploadsListed'
    <2> DEFINE new == [stage |-> "none", tries |-> up[c][d].tries + 1]
    <2>1. new \in Uploads /\ new.stage = "none"
        BY <1>1, <1>3, NumbersAssumption DEF UploadsListed, Uploads
    <2>2. up' = [up EXCEPT ![c][d] = new]
        BY <1>3 DEF FailedUpload
    <2> HIDE DEF new
    <2> QED BY <1>2, <1>3, <2>1, <2>2, UploadStep
<1>4. ASSUME NEW c \in Clients, NEW d \in Layers, BeginUpload(c, d)
      PROVE  UploadsTyped' /\ UploadsListed'
    <2> DEFINE new == [up[c][d] EXCEPT !.stage = "writing"]
    <2>1. new \in Uploads /\ new.stage = "writing" /\ new.tries <= Retries
        BY <1>1, <1>4 DEF BeginUpload, Uploads
    <2>2. /\ up' = [up EXCEPT ![c][d] = new] /\ push' = push
          /\ temp' = temp \cup {<<c, d>>}
          /\ push[c].state = "uploading" /\ d \in push[c].todo
        BY <1>4 DEF BeginUpload
    <2> HIDE DEF new
    <2> QED BY <1>2, <2>1, <2>2, UploadStep
<1>5. ASSUME NEW c \in Clients, NEW d \in Layers, NameLayer(c, d)
      PROVE  UploadsTyped' /\ UploadsListed'
    <2>1. CASE <<c, d>> \in temp
        <3> DEFINE new == [up[c][d] EXCEPT !.stage = "named"]
        <3>1. /\ new \in Uploads /\ new.stage = "named" /\ new.tries <= Retries
              /\ push[c].state = "uploading" /\ d \in push[c].todo
            BY <1>1, <1>5 DEF NameLayer, Uploads, UploadsListed
        <3>2. /\ up' = [up EXCEPT ![c][d] = new] /\ push' = push
              /\ temp' = temp \ {<<c, d>>}
            BY <1>5, <2>1 DEF NameLayer
        <3> HIDE DEF new
        <3> QED BY <1>2, <3>1, <3>2, UploadStep
    <2>2. CASE <<c, d>> \notin temp
        BY <1>3, <1>5, <2>2 DEF NameLayer
    <2> QED BY <2>1, <2>2
<1>6. ASSUME NEW c \in Clients, NEW d \in Layers, BreakUpload(c, d)
      PROVE  UploadsTyped' /\ UploadsListed'
    BY <1>3, <1>6 DEF BreakUpload
<1>7. ASSUME NEW c \in Clients, NEW d \in Layers, FailToSave(c, d)
      PROVE  UploadsTyped' /\ UploadsListed'
    <2>1. <<c, d>> \notin temp
        BY <1>7 DEF FailToSave, TypeOK
    <2> QED BY <1>3, <1>7, <2>1 DEF FailToSave
<1>8. ASSUME NEW c \in Clients, NEW d \in Layers, SaveLayer(c, d)
      PROVE  UploadsTyped' /\ UploadsListed'
    <2>1. <<c, d>> \notin temp
        BY <1>8 DEF SaveLayer, TypeOK
    <2>2. NoUpload \in Uploads /\ NoUpload.stage = "none"
        BY NumbersAssumption DEF NoUpload, Uploads
    <2>3. up' = [up EXCEPT ![c][d] = NoUpload] /\ temp' = temp
        BY <1>8 DEF SaveLayer
    <2>4. /\ \A b \in Clients : push'[b].state = push[b].state
          /\ \A b \in Clients, e \in Layers :
                 <<b, e>> # <<c, d>> /\ e \in push[b].todo => e \in push'[b].todo
        BY <1>1, <1>8 DEF SaveLayer, Pushes
    <2> QED BY <1>2, <2>1, <2>2, <2>3, <2>4, UploadStep
<1>9. ASSUME NEW c \in Clients, GiveUpLayers(c)
      PROVE  UploadsTyped' /\ UploadsListed'
    <2>1. NoUpload \in Uploads /\ NoUpload.stage = "none"
        BY NumbersAssumption DEF NoUpload, Uploads
    <2>2. /\ up' \in [Clients -> [Layers -> Uploads]]
          /\ \A d \in Layers : up'[c][d] = NoUpload
          /\ \A b \in Clients \ {c} : up'[b] = up[b] /\ push'[b] = push[b]
        BY <1>1, <1>9, <2>1 DEF GiveUpLayers, Goto
    <2>3. temp' \subseteq temp /\ \A d \in Layers : <<c, d>> \notin temp'
        BY <1>9 DEF GiveUpLayers
    <2>4. UploadsTyped'
        <3> SUFFICES ASSUME NEW b \in Clients, NEW e \in Layers, <<b, e>> \in temp'
                     PROVE  up'[b][e].stage = "writing"
            BY <2>2, <2>3 DEF UploadsTyped, TypeOK
        <3>1. b # c /\ <<b, e>> \in temp
            BY <2>3
        <3> QED BY <2>2, <3>1 DEF TypeOK
    <2>5. UploadsListed'
        BY <2>1, <2>2 DEF UploadsListed
    <2> QED BY <2>4, <2>5
<1>10. ASSUME NEW c \in Clients,
              CheckLayers(c) \/ AnswerCheck(c) \/ Preflight(c) \/ PreflightRefused(c) \/ Uploaded(c)
              \/ CheckAssembly(c) \/ RecheckAssembly(c) \/ CopyLayer(c) \/ FinishTar(c)
              \/ LoadImage(c) \/ EndPush(c) \/ FailToLoad(c) \/ PreflightFull(c)
              \/ FullRefused(c) \/ SendImage(c)
       PROVE  UploadsTyped' /\ UploadsListed'
    <2>1. up' = up /\ temp' = temp
        BY <1>10 DEF CheckLayers, AnswerCheck, Preflight, PreflightRefused, Uploaded,
              CheckAssembly, RecheckAssembly, CopyLayer, FinishTar, LoadImage, EndPush,
              FailToLoad, PreflightFull, FullRefused, SendImage, storeVars
    <2>2. push[c].state # "uploading" \/ push[c].todo = {}
        BY <1>10 DEF CheckLayers, AnswerCheck, Preflight, PreflightRefused, Uploaded,
              CheckAssembly, RecheckAssembly, CopyLayer, FinishTar, LoadImage, EndPush,
              FailToLoad, PreflightFull, FullRefused, SendImage
    <2>3. \A b \in Clients \ {c} : push'[b] = push[b]
        BY <1>1, <1>10 DEF CheckLayers, AnswerCheck, Preflight, PreflightRefused,
                           Uploaded,
              CheckAssembly, RecheckAssembly, CopyLayer, FinishTar, LoadImage, EndPush,
              FailToLoad, PreflightFull, FullRefused, SendImage, Goto
    <2> QED BY <2>1, <2>2, <2>3, UploadsRest
<1>11. CASE \/ HourPasses \/ MaintenancePrune
            \/ \E p \in Pruners : \/ ListImages(p) \/ ListLayers(p) \/ DeleteRecord(p)
                                  \/ KeepRecord(p) \/ EndPrune(p)
                                  \/ \E d \in Layers : RemoveDirectory(p, d)
            \/ UNCHANGED vars
    <2>1. up' = up /\ temp' \subseteq temp
        BY <1>11 DEF HourPasses, MaintenancePrune, ListImages, ListLayers, DeleteRecord,
              KeepRecord, EndPrune, RemoveDirectory, storeVars, vars
    <2>2. \A b \in Clients : push'[b].state = push[b].state /\ push'[b].todo = push[b].todo
        <3>1. CASE HourPasses
            BY <1>1, <3>1 DEF HourPasses, Pushes
        <3>2. CASE UNCHANGED push
            BY <3>2
        <3> QED BY <1>11, <3>1, <3>2 DEF MaintenancePrune, ListImages, ListLayers,
                                         DeleteRecord,
              KeepRecord, EndPrune, RemoveDirectory, vars
    <2> QED BY <2>1, <2>2, UploadsRest
<1> QED BY <1>4, <1>5, <1>6, <1>7, <1>8, <1>9, <1>10, <1>11 DEF Next

------------------------------------------------------------------------------
(* The store, its records, and what was promised                           *)

StoreTyped ==
    /\ file \subseteq Layers /\ images \subseteq Clients /\ left \in 0 .. Budget
    /\ record \in [Layers -> Rows \cup {None}]

(* Layers are only stored, tars only loaded as what they are, and the      *)
(* budget is only spent.                                                   *)
LEMMA StepStore ==
    ASSUME TypeOK, [Next]_vars
    PROVE  StoreTyped'
<1>1. record \in [Layers -> Rows \cup {None}]
    BY DEF TypeOK
<1>2. /\ file' = file \/ (\E d \in Layers : file' \in {file \cup {d}, file \ {d}})
      /\ images' = images \/ (\E c \in Clients : images' = images \cup {c})
    BY DEF Next, CheckLayers, AnswerCheck, Preflight, PreflightRefused, BeginUpload,
           NameLayer,
           BreakUpload, SaveLayer, FailToSave, GiveUpLayers, Uploaded, CheckAssembly,
           RecheckAssembly, CopyLayer, FinishTar, LoadImage, EndPush, FailToLoad,
           PreflightFull,
           FullRefused, SendImage, MaintenancePrune, ListImages, ListLayers,
           RemoveDirectory,
           DeleteRecord, KeepRecord, EndPrune, HourPasses, storeVars, vars
<1>3. left' = left \/ (left > 0 /\ left' = left - 1)
    BY DEF Next, CheckLayers, AnswerCheck, Preflight, PreflightRefused, BeginUpload,
           NameLayer,
           BreakUpload, SaveLayer, FailToSave, GiveUpLayers, Uploaded, CheckAssembly,
           RecheckAssembly, CopyLayer, FinishTar, LoadImage, EndPush, FailToLoad,
           PreflightFull,
           FullRefused, SendImage, MaintenancePrune, ListImages, ListLayers,
           RemoveDirectory,
           DeleteRecord, KeepRecord, EndPrune, HourPasses, Incident, vars
<1>4. left' \in 0 .. Budget
    BY <1>3, NumbersAssumption DEF TypeOK
<1>5. CASE record' = record
    BY <1>1, <1>2, <1>4, <1>5 DEF StoreTyped, TypeOK
<1>6. CASE record' # record
    <2>1. \/ \E ds : Touch(ds)
          \/ \E c \in Clients : FinishTar(c) \/ \E d \in Layers : SaveLayer(c, d)
          \/ HourPasses
          \/ \E p \in Pruners : DeleteRecord(p)
        BY <1>6 DEF Next, CheckLayers, AnswerCheck, TouchCached, Preflight,
                    PreflightRefused,
           BeginUpload, NameLayer, BreakUpload, FailToSave, GiveUpLayers, Uploaded,
           CheckAssembly,
           RecheckAssembly, CopyLayer, LoadImage, EndPush, FailToLoad, PreflightFull,
           FullRefused, SendImage, MaintenancePrune, ListImages, ListLayers,
           RemoveDirectory,
           KeepRecord, EndPrune, storeVars, vars
    <2>2. ASSUME \E ds : Touch(ds)
          PROVE  record' \in [Layers -> Rows \cup {None}]
        BY <1>1, <2>2 DEF Touch, Rows
    <2>3. ASSUME NEW c \in Clients, FinishTar(c)
          PROVE  record' \in [Layers -> Rows \cup {None}]
        BY <1>1, <2>3 DEF FinishTar, Rows
    <2>4. ASSUME NEW c \in Clients, NEW d \in Layers, SaveLayer(c, d)
          PROVE  record' \in [Layers -> Rows \cup {None}]
        BY <1>1, <2>4 DEF SaveLayer, Rows
    <2>5. ASSUME HourPasses
          PROVE  record' \in [Layers -> Rows \cup {None}]
        BY <1>1, <2>5 DEF HourPasses, Rows
    <2>6. ASSUME NEW p \in Pruners, DeleteRecord(p)
          PROVE  record' \in [Layers -> Rows \cup {None}]
        BY <1>1, <2>6 DEF DeleteRecord
    <2>7. record' \in [Layers -> Rows \cup {None}]
        BY <2>1, <2>2, <2>3, <2>4, <2>5, <2>6
    <2> QED BY <1>2, <1>4, <2>7 DEF StoreTyped, TypeOK
<1> QED BY <1>5, <1>6

LEMMA StepPromises ==
    ASSUME TypeOK, PromisesRecent, [Next]_vars
    PROVE  PromisesRecent'
<1>1. push \in [Clients -> Pushes] /\ record \in [Layers -> Rows \cup {None}]
    BY DEF TypeOK
<1>2. push' \in [Clients -> Pushes]
    BY PushType
<1>3. ASSUME \A d \in Layers : record'[d] \in {record[d], None} \/ record'[d].recent,
             \A c \in Clients : \A d \in push'[c].promise :
                 d \in push[c].promise \/ record'[d] = None \/ record'[d].recent
      PROVE  PromisesRecent'
    BY <1>2, <1>3 DEF PromisesRecent, Pushes
<1>4. ASSUME NEW c \in Clients, AnswerCheck(c)
      PROVE  PromisesRecent'
    <2>1. \A d \in Layers : \/ d \notin Digests(c) \ push[c].todo /\ record'[d] = record[d]
                            \/ record'[d] = None \/ record'[d].recent
        BY <1>1, <1>4 DEF AnswerCheck, TouchCached, Touch, Rows
    <2>2. /\ push'[c].promise = Digests(c) \ push[c].todo
          /\ \A b \in Clients \ {c} : push'[b] = push[b]
        BY <1>1, <1>4 DEF AnswerCheck, Pushes
    <2> QED BY <1>3, <2>1, <2>2, DigestsType
<1>5. ASSUME NEW c \in Clients, FinishTar(c)
      PROVE  PromisesRecent'
    <2>1. \A d \in Layers : \/ d \notin Image[c] /\ record'[d] = record[d]
                            \/ record'[d] = None \/ record'[d].recent
        BY <1>1, <1>5 DEF FinishTar
    <2>2. /\ push'[c].promise = Image[c]
          /\ \A b \in Clients \ {c} : push'[b] = push[b]
        BY <1>1, <1>5 DEF FinishTar, Pushes
    <2> QED BY <1>3, <2>1, <2>2, DigestsType
<1>6. ASSUME NEW c \in Clients, NEW d \in Layers, SaveLayer(c, d)
      PROVE  PromisesRecent'
    <2>1. \A e \in Layers : record'[e] = record[e] \/ record'[e].recent
        BY <1>1, <1>6 DEF SaveLayer
    <2>2. /\ push'[c].promise = push[c].promise \cup {d}
          /\ \A b \in Clients \ {c} : push'[b] = push[b]
        BY <1>1, <1>6 DEF SaveLayer, Pushes
    <2>3. record'[d].recent
        BY <1>1, <1>6 DEF SaveLayer
    <2> QED BY <1>3, <2>1, <2>2, <2>3
<1>7. ASSUME HourPasses
      PROVE  PromisesRecent'
    <2>1. \A c \in Clients : push'[c].promise = {}
        BY <1>1, <1>7 DEF HourPasses, Pushes
    <2> QED BY <2>1 DEF PromisesRecent
<1>8. ASSUME NEW p \in Pruners, DeleteRecord(p)
      PROVE  PromisesRecent'
    <2>1. push' = push /\ \A d \in Layers : record'[d] \in {record[d], None}
        BY <1>1, <1>8 DEF DeleteRecord
    <2> QED BY <1>3, <2>1
<1>9. ASSUME record' = record, \A c \in Clients : push'[c].promise \subseteq push[c].promise
      PROVE  PromisesRecent'
    BY <1>3, <1>9
<1>10. ASSUME NEW c \in Clients,
              CheckLayers(c) \/ Preflight(c) \/ PreflightRefused(c) \/ Uploaded(c)
              \/ CheckAssembly(c) \/ RecheckAssembly(c) \/ CopyLayer(c)
              \/ LoadImage(c) \/ EndPush(c) \/ FailToLoad(c) \/ PreflightFull(c)
              \/ FullRefused(c) \/ SendImage(c) \/ GiveUpLayers(c)
       PROVE  PromisesRecent'
    <2>1. record' = record
        BY <1>10 DEF CheckLayers, Preflight, PreflightRefused, Uploaded,
              CheckAssembly, RecheckAssembly, CopyLayer, LoadImage, EndPush,
              FailToLoad, PreflightFull, FullRefused, SendImage, GiveUpLayers, storeVars
    <2>2. \A b \in Clients \ {c} : push'[b] = push[b]
        BY <1>1, <1>10 DEF CheckLayers, Preflight, PreflightRefused, Uploaded,
              CheckAssembly, RecheckAssembly, CopyLayer, LoadImage, EndPush,
              FailToLoad, PreflightFull, FullRefused, SendImage, GiveUpLayers, Goto
    <2>3. push'[c].promise \in {push[c].promise, {}}
        <3>1. CASE CheckLayers(c) \/ RecheckAssembly(c) \/ CopyLayer(c) \/ LoadImage(c)
            BY <1>1, <3>1 DEF CheckLayers, RecheckAssembly, CopyLayer, LoadImage, Pushes
        <3>2. CASE ~(CheckLayers(c) \/ RecheckAssembly(c) \/ CopyLayer(c) \/ LoadImage(c))
            BY <1>1, <1>10, <3>2 DEF Preflight, PreflightRefused, Uploaded, CheckAssembly,
              EndPush, FailToLoad, PreflightFull, FullRefused, SendImage, GiveUpLayers,
              Goto,
              Pushes
        <3> QED BY <3>1, <3>2
    <2> QED BY <1>9, <2>1, <2>2, <2>3
<1>11. CASE UNCHANGED <<record, push>>
    BY <1>9, <1>11
<1>12. CASE \/ \E c \in Clients, d \in Layers :
                  BeginUpload(c, d) \/ NameLayer(c, d) \/ BreakUpload(c, d)
                  \/ FailToSave(c, d)
            \/ MaintenancePrune
            \/ \E p \in Pruners : \/ ListImages(p) \/ ListLayers(p)
                                  \/ KeepRecord(p) \/ EndPrune(p)
                                  \/ \E d \in Layers : RemoveDirectory(p, d)
            \/ UNCHANGED vars
    BY <1>11, <1>12 DEF BeginUpload, NameLayer, BreakUpload, FailToSave, MaintenancePrune,
          ListImages, ListLayers, KeepRecord, EndPrune, RemoveDirectory, storeVars, vars
<1> QED BY <1>4, <1>5, <1>6, <1>7, <1>8, <1>10, <1>12 DEF Next

------------------------------------------------------------------------------
(* Prunes                                                                  *)

PruneStates == {"idle", "images", "layers", "delete", "record", "end"}

LEMMA StartPruneType ==
    ASSUME TypeOK, NEW p \in Pruners, StartPrune(p)
    PROVE  /\ prune' \in [Pruners -> Prunes] /\ prune[p].state = "idle"
           /\ prune'[p].state = "images" /\ \A q \in Pruners \ {p} : prune'[q] = prune[q]
<1>1. NoPrune \in Prunes
    BY DEF NoPrune, Prunes
<1>2. [NoPrune EXCEPT !.state = "images"] \in Prunes
    BY <1>1 DEF Prunes
<1>3. [NoPrune EXCEPT !.state = "images"].state = "images"
    BY DEF NoPrune
<1> QED BY <1>2, <1>3 DEF StartPrune, TypeOK

(* Of all steps only ListLayers takes a prune from "layers" to "delete".   *)
LEMMA StepPrunes ==
    ASSUME TypeOK, [Next]_vars
    PROVE  /\ prune' \in [Pruners -> Prunes]
           /\ \A p \in Pruners : prune[p].state = "layers" /\ prune'[p].state = "delete" =>
                  prune'[p].todo = {d \in Layers : Unneeded(d, prune[p].images)}
<1> DEFINE Listed == \A p \in Pruners : prune[p].state = "layers" /\ prune'[p].state = "delete" =>
                         prune'[p].todo = {d \in Layers : Unneeded(d, prune[p].images)}
           Goal == prune' \in [Pruners -> Prunes] /\ Listed
<1>1. prune \in [Pruners -> Prunes]
    BY DEF TypeOK
<1>2. CASE UNCHANGED prune
    BY <1>1, <1>2
<1>3. ASSUME NEW p \in Pruners, prune' \in [Pruners -> Prunes], prune[p].state # "layers",
             \A q \in Pruners \ {p} : prune'[q] = prune[q]
      PROVE  Goal
    BY <1>3
<1>4. ASSUME NEW p \in Pruners, StartPrune(p)
      PROVE  Goal
    BY <1>3, <1>4, StartPruneType
<1>5. ASSUME NEW c \in Clients, prune[c].state = "end", prune' = [prune EXCEPT ![c] = NoPrune]
      PROVE  Goal
    <2>1. NoPrune \in Prunes /\ c \in Pruners
        BY DEF NoPrune, Prunes, Pruners
    <2>2. prune' \in [Pruners -> Prunes]
        BY <1>1, <1>5, <2>1
    <2>3. \A q \in Pruners \ {c} : prune'[q] = prune[q]
        BY <1>1, <1>5
    <2> QED BY <1>3, <1>5, <2>1, <2>2, <2>3
<1>6. ASSUME NEW c \in Clients,
             Preflight(c) \/ CheckAssembly(c) \/ PreflightFull(c)
      PROVE  Goal
    <2>1. UNCHANGED prune \/ StartPrune(c)
        BY <1>6 DEF Preflight, CheckAssembly, PreflightFull
    <2>2. c \in Pruners
        BY DEF Pruners
    <2> QED BY <1>2, <1>4, <2>1, <2>2
<1>7. ASSUME NEW c \in Clients, PreflightRefused(c) \/ RecheckAssembly(c) \/ FullRefused(c)
      PROVE  Goal
    BY <1>5, <1>7 DEF PreflightRefused, RecheckAssembly, FullRefused
<1>8. CASE MaintenancePrune
    BY <1>4, <1>8 DEF MaintenancePrune, Pruners
<1>9. ASSUME NEW p \in Pruners, ListLayers(p)
      PROVE  Goal
    <2> DEFINE todo == {d \in Layers : Unneeded(d, prune[p].images)}
    <2>1. todo \in SUBSET Layers
        OBVIOUS
    <2>2. prune' = [prune EXCEPT ![p].state = "delete", ![p].todo = todo]
        BY <1>9 DEF ListLayers
    <2> HIDE DEF todo
    <2>3. /\ prune' \in [Pruners -> Prunes]
          /\ prune'[p].todo = todo /\ \A q \in Pruners \ {p} : prune'[q] = prune[q]
        BY <1>1, <2>1, <2>2 DEF Prunes
    <2> QED BY <2>3 DEF todo
<1>10. ASSUME NEW p \in Pruners,
              ListImages(p) \/ DeleteRecord(p) \/ KeepRecord(p) \/ EndPrune(p)
              \/ \E d \in Layers : RemoveDirectory(p, d)
       PROVE  Goal
    <2>1. \A q \in Pruners \ {p} : prune'[q] = prune[q]
        BY <1>1, <1>10 DEF ListImages, DeleteRecord, KeepRecord, EndPrune, RemoveDirectory
    <2>2. prune[p].state # "layers"
        BY <1>10 DEF ListImages, DeleteRecord, KeepRecord, EndPrune, RemoveDirectory
    <2>3. CASE ListImages(p)
        <3>1. PICK known \in SUBSET Clients :
                  prune' = [prune EXCEPT ![p].state = "layers", ![p].images = known]
            BY <2>3 DEF ListImages, TypeOK
        <3>2. prune' \in [Pruners -> Prunes]
            BY <1>1, <3>1 DEF Prunes
        <3> QED BY <1>3, <2>1, <2>2, <3>2
    <2>4. CASE DeleteRecord(p) \/ KeepRecord(p)
        BY <1>1, <1>3, <2>1, <2>2, <2>4 DEF DeleteRecord, KeepRecord, Prunes
    <2>5. CASE EndPrune(p)
        BY <1>1, <1>3, <2>1, <2>2, <2>5 DEF EndPrune, Prunes
    <2>6. ASSUME NEW d \in Layers, RemoveDirectory(p, d)
          PROVE  Goal
        BY <1>1, <1>3, <2>1, <2>2, <2>6 DEF RemoveDirectory, Prunes
    <2> QED BY <1>10, <2>3, <2>4, <2>5, <2>6
<1>11. CASE \/ \E c \in Clients, d \in Layers :
                  \/ BeginUpload(c, d) \/ NameLayer(c, d) \/ BreakUpload(c, d)
                  \/ SaveLayer(c, d) \/ FailToSave(c, d)
            \/ \E c \in Clients :
                  \/ CheckLayers(c) \/ AnswerCheck(c) \/ GiveUpLayers(c) \/ Uploaded(c)
                  \/ CopyLayer(c) \/ FinishTar(c) \/ LoadImage(c) \/ EndPush(c)
                  \/ FailToLoad(c) \/ SendImage(c)
            \/ HourPasses \/ UNCHANGED vars
    BY <1>2, <1>11 DEF BeginUpload, NameLayer, BreakUpload, SaveLayer, FailToSave,
                       CheckLayers,
          AnswerCheck, GiveUpLayers, Uploaded, CopyLayer, FinishTar, LoadImage, EndPush,
          FailToLoad, SendImage, HourPasses, vars
<1> QED BY <1>6, <1>7, <1>8, <1>9, <1>10, <1>11 DEF Next

------------------------------------------------------------------------------
(* The invariant and the promise                                           *)

LEMMA InitIInv == Init => IInv
<1> SUFFICES ASSUME Init PROVE IInv
    OBVIOUS
<1>1. NoPush \in Pushes /\ NoPush.todo = {} /\ NoPush.promise = {}
    BY DEF NoPush, Pushes, PushStates
<1>2. NoUpload \in Uploads /\ NoUpload.stage = "none"
    BY NumbersAssumption DEF NoUpload, Uploads
<1>3. NoPrune \in Prunes
    BY DEF NoPrune, Prunes
<1>4. \A c \in Clients : push[c] = NoPush /\ \A d \in Layers : up[c][d] = NoUpload
    BY DEF Init
<1>5. record \in [Layers -> Rows \cup {None}]
    BY DEF Init, Rows
<1>6. TypeOK
    BY <1>1, <1>2, <1>3, <1>5, SetsAssumption, NumbersAssumption DEF Init, TypeOK
<1> QED BY <1>1, <1>2, <1>4, <1>6 DEF IInv, OwnLayers, UploadsListed, PromisesRecent

LEMMA StepIInv == IInv /\ [Next]_vars => IInv'
<1> SUFFICES ASSUME IInv, [Next]_vars PROVE IInv'
    OBVIOUS
<1>1. TypeOK'
    BY PushType, StepUploads, StepStore, StepPrunes
       DEF IInv, TypeOK, UploadsTyped, StoreTyped
<1> QED BY <1>1, StepOwn, StepUploads, StepPromises DEF IInv

(* The types of the store, the pushes and the prunes; among them: a layer  *)
(* is tried one more time than layerUploadMaxRetries says, and temporary   *)
(* files only exist while somebody writes them.                            *)
THEOREM TypeCorrect == Spec => []TypeOK
BY InitIInv, StepIInv, PTL DEF Spec, IInv

(* What the server has just reported as cached, stored or assembled is     *)
(* never judged unused by a prune that looks afterwards: handleLayerCheck  *)
(* touches what it reports before it answers, and every record that is     *)
(* written is written as just used (models_layers.go).                     *)
THEOREM PromisesHold == Spec => PromisedNotListed
<1>1. IInv /\ [Next]_vars =>
          [\A p \in Pruners, c \in Clients :
              prune[p].state = "layers" /\ prune'[p].state = "delete" =>
                  prune'[p].todo \cap push[c].promise = {}]_vars
    BY StepPrunes DEF IInv, PromisesRecent, Unneeded
<1> QED BY <1>1, InitIInv, StepIInv, PTL DEF Spec, PromisedNotListed

------------------------------------------------------------------------------
(* Counting                                                                *)

Pairs(cs) == {x \in cs \X Layers : x[2] \in Image[x[1]]}

LEMMA FinitePairs ==
    /\ IsFiniteSet(Clients \X Layers)
    /\ \A S \in SUBSET (Clients \X Layers) : IsFiniteSet(S) /\ Cardinality(S) \in Nat
    /\ \A S \in SUBSET Layers : IsFiniteSet(S) /\ Cardinality(S) \in Nat
<1>1. IsFiniteSet(Clients \X Layers)
    BY FiniteAssumption, FS_Product
<1>2. \A S \in SUBSET (Clients \X Layers) : IsFiniteSet(S) /\ Cardinality(S) \in Nat
    BY <1>1, FS_Subset, FS_CardinalityType
<1>3. \A S \in SUBSET Layers : IsFiniteSet(S) /\ Cardinality(S) \in Nat
    BY FiniteAssumption, FS_Subset, FS_CardinalityType
<1> QED BY <1>1, <1>2, <1>3

(* As many elements at most as those they are mapped from.                 *)
LEMMA MappedFrom ==
    ASSUME NEW S, IsFiniteSet(S), NEW T, NEW f \in [S -> T], \A t \in T : \E s \in S : f[s] = t
    PROVE  IsFiniteSet(T) /\ Cardinality(T) <= Cardinality(S)
<1>1. f \in Surjection(S, T)
    BY DEF Surjection
<1> QED BY <1>1, FS_Surjection

LEMMA TotalIsNat ==
    ASSUME NEW cs \in SUBSET Clients
    PROVE  /\ Total(cs) \in Nat /\ Total(cs) = Cardinality(Pairs(cs))
           /\ Pairs(cs) \in SUBSET (Clients \X Layers) /\ IsFiniteSet(Pairs(cs))
BY FinitePairs DEF Total, Pairs

LEMMA TotalGrows ==
    ASSUME NEW cs \in SUBSET Clients, NEW bs \in SUBSET cs
    PROVE  Total(bs) <= Total(cs)
<1>1. Pairs(bs) \in SUBSET Pairs(cs)
    BY DEF Pairs
<1> QED BY <1>1, TotalIsNat, FS_Subset

LEMMA TotalOfUnion ==
    ASSUME NEW cs \in SUBSET Clients, NEW bs \in SUBSET Clients
    PROVE  /\ Total(cs \cup bs) <= Total(cs) + Total(bs)
           /\ cs \cap bs = {} => Total(cs \cup bs) = Total(cs) + Total(bs)
<1>1. Pairs(cs \cup bs) = Pairs(cs) \cup Pairs(bs)
    BY DEF Pairs
<1>2. cs \cap bs = {} => Pairs(cs) \cap Pairs(bs) = {}
    BY DEF Pairs
<1>3. /\ IsFiniteSet(Pairs(cs)) /\ IsFiniteSet(Pairs(bs))
      /\ Total(cs) \in Nat /\ Total(bs) \in Nat /\ Total(cs \cup bs) \in Nat
      /\ Total(cs) = Cardinality(Pairs(cs)) /\ Total(bs) = Cardinality(Pairs(bs))
      /\ Total(cs \cup bs) = Cardinality(Pairs(cs \cup bs))
      /\ IsFiniteSet(Pairs(cs) \cap Pairs(bs)) /\ Cardinality(Pairs(cs) \cap Pairs(bs)) \in Nat
    BY TotalIsNat, FinitePairs
<1>4. Total(cs \cup bs) = Total(cs) + Total(bs) - Cardinality(Pairs(cs) \cap Pairs(bs))
    BY <1>1, <1>3, FS_Union
<1>5. cs \cap bs = {} => Cardinality(Pairs(cs) \cap Pairs(bs)) = 0
    BY <1>2, FS_EmptySet
<1> DEFINE both == Total(cs \cup bs)
           common == Cardinality(Pairs(cs) \cap Pairs(bs))
<1>6. /\ Total(cs) \in Nat /\ Total(bs) \in Nat /\ both \in Nat /\ common \in Nat
      /\ both = Total(cs) + Total(bs) - common
      /\ cs \cap bs = {} => common = 0
    BY <1>3, <1>4, <1>5
<1> HIDE DEF both, common
<1>7. both <= Total(cs) + Total(bs) /\ (cs \cap bs = {} => both = Total(cs) + Total(bs))
    BY <1>6
<1> QED BY <1>7 DEF both

(* What one client adds: so many layers, as pairs with the client.         *)
LEMMA PairsOfOne ==
    ASSUME NEW c \in Clients, NEW ds \in SUBSET Layers
    PROVE  LET T == {x \in Clients \X Layers : x[1] = c /\ x[2] \in ds}
           IN  IsFiniteSet(T) /\ Cardinality(T) \in Nat /\ Cardinality(T) <= Cardinality(ds)
<1> DEFINE T == {x \in Clients \X Layers : x[1] = c /\ x[2] \in ds}
           f == [d \in ds |-> <<c, d>>]
<1>1. f \in [ds -> T] /\ \A t \in T : \E d \in ds : f[d] = t
    OBVIOUS
<1>2. IsFiniteSet(ds)
    BY FinitePairs
<1>3. T \in SUBSET (Clients \X Layers)
    OBVIOUS
<1> HIDE DEF T, f
<1>4. IsFiniteSet(T) /\ Cardinality(T) <= Cardinality(ds)
    BY <1>1, <1>2, MappedFrom
<1> QED BY <1>3, <1>4, FinitePairs DEF T

LEMMA SizeFacts ==
    ASSUME NEW c \in Clients
    PROVE  Size(c) \in Nat /\ Total({c}) <= Size(c)
<1> DEFINE T == {x \in Clients \X Layers : x[1] = c /\ x[2] \in Image[c]}
<1>1. Size(c) \in Nat /\ Size(c) = Cardinality(Image[c]) /\ Image[c] \in SUBSET Layers
    BY DigestsType, FinitePairs DEF Size
<1>2. Cardinality(T) <= Cardinality(Image[c])
    BY <1>1, PairsOfOne
<1>3. Pairs({c}) = T
    BY DEF Pairs
<1> HIDE DEF T
<1>4. Total({c}) = Cardinality(Pairs({c}))
    BY TotalIsNat
<1> QED BY <1>1, <1>2, <1>3, <1>4

------------------------------------------------------------------------------
(* The disk, with what is committed but not yet written                    *)

(* A push commits itself when it is let through a check: to the layers it  *)
(* is going to upload, and to its tar and the image in Docker.  Files that *)
(* an upload has named are counted with the upload.                        *)
Named == {d \in Layers : \E c \in Clients : up[c][d].stage = "named"}
Uploading == {x \in Clients \X Layers :
                  push[x[1]].state = "uploading" /\ x[2] \in push[x[1]].todo}
In(states) == {c \in Clients : push[c].state \in states}
TarStates == {"copy", "send", "load", "loadfull", "loaded"}
ImageStates == {"copy", "send", "load", "loadfull"}

Cost ==
    Cardinality(file \ Named) + Cardinality(Uploading)
    + Total(In(TarStates)) + Total(images \cup In(ImageStates))

LEMMA CostTypes ==
    ASSUME file \subseteq Layers, images \subseteq Clients
    PROVE  /\ Cardinality(file \ Named) \in Nat /\ Cardinality(Uploading) \in Nat
           /\ Total(In(TarStates)) \in Nat /\ Total(images \cup In(ImageStates)) \in Nat
           /\ Total(images) \in Nat /\ Total(Tars) \in Nat
           /\ Uploading \in SUBSET (Clients \X Layers)
           /\ In(TarStates) \in SUBSET Clients
           /\ images \cup In(ImageStates) \in SUBSET Clients
           /\ images \in SUBSET Clients /\ Tars \in SUBSET Clients
<1>1. /\ file \ Named \in SUBSET Layers /\ Uploading \in SUBSET (Clients \X Layers)
      /\ In(TarStates) \in SUBSET Clients /\ In(ImageStates) \in SUBSET Clients
      /\ Tars \in SUBSET Clients
    BY DEF Uploading, In, Tars
<1> QED BY <1>1, FinitePairs, TotalIsNat

(* What is on the disk has been counted.                                   *)
LEMMA UsedIsCounted ==
    ASSUME TypeOK, UploadsListed
    PROVE  Used \in Nat /\ Used <= Cost
<1> DEFINE named == {x \in Clients \X Layers : up[x[1]][x[2]].stage = "named"}
<1>1. /\ file \subseteq Layers /\ images \subseteq Clients
      /\ temp \in SUBSET (Clients \X Layers)
    BY DEF TypeOK
<1>2. /\ Cardinality(file) \in Nat /\ Cardinality(temp) \in Nat
      /\ IsFiniteSet(file) /\ IsFiniteSet(temp)
      /\ named \in SUBSET (Clients \X Layers) /\ IsFiniteSet(named)
      /\ Cardinality(named) \in Nat
      /\ IsFiniteSet(Named) /\ Cardinality(Named) \in Nat
    BY <1>1, FinitePairs DEF Named
<1>3. Cardinality(Named) <= Cardinality(named)
    <2> DEFINE f == [x \in named |-> x[2]]
    <2>1. \A d \in Named : \E x \in named : f[x] = d
        <3> SUFFICES ASSUME NEW d \in Named PROVE \E x \in named : f[x] = d
            OBVIOUS
        <3>1. PICK c \in Clients : up[c][d].stage = "named" /\ d \in Layers
            BY DEF Named
        <3>2. <<c, d>> \in named /\ f[<<c, d>>] = d
            BY <3>1
        <3> HIDE DEF f, named
        <3> QED BY <3>2
    <2>2. f \in [named -> Named]
        BY DEF Named
    <2> HIDE DEF f, named
    <2> QED BY <1>2, <2>1, <2>2, MappedFrom
<1>4. Cardinality(file) <= Cardinality(file \ Named) + Cardinality(Named)
    <2>1. Cardinality(file \ Named) = Cardinality(file) - Cardinality(file \cap Named)
        BY <1>2, FS_Difference
    <2>2. Cardinality(file \cap Named) <= Cardinality(Named) /\ Cardinality(file \cap Named) \in Nat
        BY <1>2, FS_Intersection, FS_CardinalityType
    <2> QED BY <1>2, <2>1, <2>2
<1>5. Cardinality(named) + Cardinality(temp) <= Cardinality(Uploading)
    <2>1. named \cap temp = {}
        BY DEF TypeOK
    <2>2. named \cup temp \in SUBSET Uploading
        <3>1. \A c \in Clients, d \in Layers :
                  up[c][d].stage # "none" => <<c, d>> \in Uploading
            BY DEF UploadsListed, Uploading
        <3>2. \A x \in named \cup temp : x \in Clients \X Layers /\ up[x[1]][x[2]].stage # "none"
            BY DEF TypeOK
        <3> QED BY <3>1, <3>2
    <2> HIDE DEF named
    <2>3. Cardinality(named \cup temp) = Cardinality(named) + Cardinality(temp)
        <3>1. Cardinality(named \cap temp) = 0
            BY <2>1, FS_EmptySet
        <3>2. Cardinality(named \cup temp)
                  = Cardinality(named) + Cardinality(temp) - Cardinality(named \cap temp)
            BY <1>2, FS_Union
        <3>3. Cardinality(named) \in Nat /\ Cardinality(temp) \in Nat
            BY <1>2
        <3> QED BY <3>1, <3>2, <3>3
    <2>4. Cardinality(named \cup temp) <= Cardinality(Uploading)
        BY <1>1, <2>2, CostTypes, FinitePairs, FS_Subset
    <2> QED BY <2>3, <2>4
<1>6. Total(Tars) <= Total(In(TarStates))
    <2>1. Tars \in SUBSET In(TarStates)
        BY DEF Tars, In, TarStates
    <2> QED BY <1>1, <2>1, CostTypes, TotalGrows
<1>7. Total(images) <= Total(images \cup In(ImageStates))
    BY <1>1, CostTypes, TotalGrows
<1> HIDE DEF named
<1> QED BY <1>1, <1>2, <1>3, <1>4, <1>5, <1>6, <1>7, CostTypes DEF Used, Cost

(* To a push that is about to be checked, more than what is on the disk    *)
(* are only the commitments of the others: for each of them its layers, or *)
(* its tar and its image.                                                  *)
LEMMA CommittedByOthers ==
    ASSUME TypeOK, OwnLayers, NEW c \in Clients,
           push[c].state \in {"preflight", "assemble", "full"}
    PROVE  Cost <= Used + 2 * Total(Clients \ {c})
<1> DEFINE others == Clients \ {c}
           active == In({"uploading"})
           unwritten == In({"copy", "send"})
           unloaded == In(ImageStates)
<1>1. /\ file \subseteq Layers /\ images \in SUBSET Clients
      /\ temp \in SUBSET (Clients \X Layers)
    BY DEF TypeOK
<1>2. /\ others \in SUBSET Clients /\ active \in SUBSET others /\ unwritten \in SUBSET others
      /\ unloaded \in SUBSET others /\ active \cap unloaded = {}
    BY DEF In, ImageStates
<1>3. /\ Total(others) \in Nat /\ Total(active) \in Nat /\ Total(unwritten) \in Nat
      /\ Total(unloaded) \in Nat /\ Cardinality(file) \in Nat /\ Cardinality(temp) \in Nat
    <2> HIDE DEF others, active, unwritten, unloaded
    <2>1. active \in SUBSET Clients /\ unwritten \in SUBSET Clients /\ unloaded \in SUBSET Clients
        BY <1>2
    <2> QED BY <1>1, <1>2, <2>1, TotalIsNat, FinitePairs
<1>4. Cardinality(file \ Named) <= Cardinality(file)
    <2>1. file \ Named \in SUBSET file
        OBVIOUS
    <2> QED BY <1>1, <2>1, FinitePairs, FS_Subset
<1>5. Cardinality(Uploading) <= Total(active)
    <2>1. Uploading \in SUBSET Pairs(active)
        BY DEF Uploading, Pairs, In, OwnLayers
    <2>2. active \in SUBSET Clients
        BY DEF In
    <2> QED BY <2>1, <2>2, TotalIsNat, FS_Subset
<1>6. Total(In(TarStates)) <= Total(Tars) + Total(unwritten)
    <2>1. In(TarStates) = Tars \cup unwritten
        BY DEF In, Tars, TarStates
    <2>2. Tars \in SUBSET Clients /\ unwritten \in SUBSET Clients
        BY DEF In, Tars
    <2> QED BY <2>1, <2>2, TotalOfUnion
<1>7. Total(images \cup unloaded) <= Total(images) + Total(unloaded)
    <2>1. unloaded \in SUBSET Clients
        BY DEF In
    <2> QED BY <1>1, <2>1, TotalOfUnion
<1> HIDE DEF others, active, unwritten
<1>8. Total(unwritten) <= Total(others)
    BY <1>2, TotalGrows
<1>9. Total(active) + Total(unloaded) <= Total(others)
    <2> HIDE DEF unloaded
    <2>1. active \cup unloaded \in SUBSET others /\ active \in SUBSET Clients /\ unloaded \in SUBSET Clients
        BY <1>2
    <2>2. Total(active \cup unloaded) <= Total(others)
        BY <1>2, <2>1, TotalGrows
    <2>3. Total(active \cup unloaded) = Total(active) + Total(unloaded)
        BY <1>2, <2>1, TotalOfUnion
    <2> QED BY <2>2, <2>3
<1>10. Cost <= Used + 2 * Total(others)
    BY <1>1, <1>3, <1>4, <1>5, <1>6, <1>7, <1>8, <1>9, CostTypes DEF Used, Cost
<1> QED BY <1>10 DEF others

(* A file is named by its upload, and counted with it until the upload is  *)
(* over.                                                                   *)
LEMMA NamedShrink ==
    ASSUME TypeOK, UploadsListed, [Next]_vars,
           ~\E c \in Clients, d \in Layers : SaveLayer(c, d)
    PROVE  (file \ Named)' \subseteq file \ Named
<1>1. up \in [Clients -> [Layers -> Uploads]]
    BY DEF TypeOK
<1>2. ASSUME file' \subseteq file, Named \cap file' \subseteq Named'
      PROVE  (file \ Named)' \subseteq file \ Named
    BY <1>2
<1>3. ASSUME NEW c \in Clients, NEW d \in Layers, up[c][d].stage # "named" \/ d \notin file',
             file' \subseteq file, \E new : up' = [up EXCEPT ![c][d] = new]
      PROVE  (file \ Named)' \subseteq file \ Named
    <2>1. \A b \in Clients, e \in Layers : <<b, e>> # <<c, d>> => up'[b][e] = up[b][e]
        BY <1>1, <1>3
    <2>2. Named \cap file' \subseteq Named'
        BY <1>3, <2>1 DEF Named
    <2> QED BY <1>2, <1>3, <2>2
<1>4. ASSUME NEW c \in Clients, NEW d \in Layers,
             BeginUpload(c, d) \/ BreakUpload(c, d) \/ FailToSave(c, d)
      PROVE  (file \ Named)' \subseteq file \ Named
    <2>1. \E new : up' = [up EXCEPT ![c][d] = new]
        <3>1. CASE BeginUpload(c, d)
            BY <3>1 DEF BeginUpload
        <3>2. CASE BreakUpload(c, d) \/ FailToSave(c, d)
            BY <3>2 DEF BreakUpload, FailToSave, FailedUpload
        <3> QED BY <1>4, <3>1, <3>2
    <2>2. file' \subseteq file /\ (up[c][d].stage # "named" \/ d \notin file')
        BY <1>4 DEF BeginUpload, BreakUpload, FailToSave
    <2> QED BY <1>3, <2>1, <2>2
<1>5. ASSUME NEW c \in Clients, NEW d \in Layers, NameLayer(c, d)
      PROVE  (file \ Named)' \subseteq file \ Named
    <2>1. CASE <<c, d>> \in temp
        <3>1. file' = file \cup {d} /\ up' = [up EXCEPT ![c][d].stage = "named"]
            BY <1>5, <2>1 DEF NameLayer
        <3>2. \A b \in Clients, e \in Layers : <<b, e>> # <<c, d>> => up'[b][e] = up[b][e]
            BY <1>1, <3>1
        <3>3. up'[c][d].stage = "named"
            BY <1>1, <3>1 DEF Uploads
        <3>4. Named \cup {d} \subseteq Named'
            BY <3>2, <3>3 DEF Named
        <3> QED BY <3>1, <3>4
    <2>2. CASE <<c, d>> \notin temp
        <3>1. file' = file /\ FailedUpload(c, d) /\ up[c][d].stage # "named"
            BY <1>5, <2>2 DEF NameLayer
        <3> QED BY <1>3, <3>1 DEF FailedUpload
    <2> QED BY <2>1, <2>2
<1>6. ASSUME NEW c \in Clients, GiveUpLayers(c)
      PROVE  (file \ Named)' \subseteq file \ Named
    <2>1. /\ file' = file /\ \A d \in Layers : up[c][d].stage # "named"
          /\ \A b \in Clients \ {c} : up'[b] = up[b]
        BY <1>1, <1>6 DEF GiveUpLayers
    <2>2. Named \subseteq Named'
        BY <2>1 DEF Named
    <2> QED BY <1>2, <2>1, <2>2
<1>7. CASE file' \subseteq file /\ up' = up
    <2>1. Named' = Named
        BY <1>7 DEF Named
    <2> QED BY <1>2, <1>7, <2>1
<1>8. CASE \/ \E c \in Clients :
                  \/ CheckLayers(c) \/ AnswerCheck(c) \/ Preflight(c) \/ PreflightRefused(c)
                  \/ Uploaded(c) \/ CheckAssembly(c) \/ RecheckAssembly(c) \/ CopyLayer(c)
                  \/ FinishTar(c) \/ LoadImage(c) \/ EndPush(c) \/ FailToLoad(c)
                  \/ PreflightFull(c) \/ FullRefused(c) \/ SendImage(c)
           \/ HourPasses \/ MaintenancePrune
           \/ \E p \in Pruners : \/ ListImages(p) \/ ListLayers(p) \/ DeleteRecord(p)
                                 \/ KeepRecord(p) \/ EndPrune(p)
                                 \/ \E d \in Layers : RemoveDirectory(p, d)
           \/ UNCHANGED vars
    BY <1>7, <1>8 DEF CheckLayers, AnswerCheck, Preflight, PreflightRefused, Uploaded,
          CheckAssembly, RecheckAssembly, CopyLayer, FinishTar, LoadImage, EndPush,
          FailToLoad,
          PreflightFull, FullRefused, SendImage, HourPasses, MaintenancePrune, ListImages,
          ListLayers, DeleteRecord, KeepRecord, EndPrune, RemoveDirectory, storeVars, vars
<1> QED BY <1>4, <1>5, <1>6, <1>8 DEF Next

(* A push that a check lets through commits itself...                      *)
Commits(c) ==
    /\ UNCHANGED <<file, images, up>>
    /\ \A b \in Clients \ {c} : push'[b] = push[b]
    /\ \/ /\ push[c].state = "preflight" /\ push'[c].state = "uploading"
          /\ push'[c].todo = push[c].todo
          /\ Fits(Cardinality(push[c].todo), Size(c))
       \/ /\ push[c].state \in {"assemble", "full"} /\ push'[c].state \in {"copy", "send"}
          /\ Fits(0, Size(c))

(* ... in any other step a push keeps to what it has committed itself to.  *)
Keeps(b) ==
    /\ push'[b].state = "uploading" =>
           push[b].state = "uploading" /\ push'[b].todo \subseteq push[b].todo
    /\ push'[b].state \in TarStates => push[b].state \in TarStates
    /\ push'[b].state \in ImageStates => push[b].state \in ImageStates

LEMMA StepCommitments ==
    ASSUME TypeOK, [Next]_vars
    PROVE  \/ \E c \in Clients : Commits(c)
           \/ (\A b \in Clients : Keeps(b)) /\ images' \subseteq images \cup In(ImageStates)
<1> DEFINE Kept == (\A b \in Clients : Keeps(b)) /\ images' \subseteq images \cup In(ImageStates)
<1>1. push \in [Clients -> Pushes] /\ push' \in [Clients -> Pushes]
    BY PushType DEF TypeOK
<1>2. ASSUME NEW c \in Clients, \A b \in Clients \ {c} : push'[b] = push[b], Keeps(c),
             images' \subseteq images \cup In(ImageStates)
      PROVE  Kept
    BY <1>2 DEF Keeps
<1>3. ASSUME push' = push, images' = images
      PROVE  Kept
    BY <1>3 DEF Keeps
<1>4. ASSUME NEW c \in Clients, NEW state \in PushStates, Goto(c, state), images' = images,
             state = "uploading" => push[c].state = "uploading",
             state \in TarStates => push[c].state \in TarStates,
             state \in ImageStates => push[c].state \in ImageStates
      PROVE  Kept
    <2>1. Keeps(c) /\ \A b \in Clients \ {c} : push'[b] = push[b]
        BY <1>4, GotoFacts DEF Keeps
    <2> QED BY <1>2, <1>4, <2>1
<1>5. ASSUME NEW c \in Clients,
             PreflightRefused(c) \/ GiveUpLayers(c) \/ Uploaded(c) \/ EndPush(c)
             \/ FailToLoad(c) \/ FullRefused(c) \/ SendImage(c)
      PROVE  Kept
    <2>1. /\ images' = images
          /\ \/ Goto(c, "full") \/ Goto(c, "assemble") \/ Goto(c, "done")
             \/ Goto(c, "failed")
             \/ push[c].state = "send" /\ Goto(c, "loadfull")
        BY <1>5 DEF PreflightRefused, GiveUpLayers, Uploaded, EndPush, FailToLoad,
                    FullRefused, SendImage, storeVars
    <2>2. {"full", "assemble", "done", "failed", "loadfull"} \subseteq PushStates
        BY DEF PushStates
    <2> QED BY <1>4, <2>1, <2>2 DEF TarStates, ImageStates
<1>6. ASSUME NEW c \in Clients, CheckLayers(c) \/ AnswerCheck(c)
      PROVE  Kept
    <2>1. push'[c].state \in {"touch", "preflight"} /\ images' = images
        BY <1>1, <1>6 DEF CheckLayers, AnswerCheck, storeVars, Pushes
    <2>2. \A b \in Clients \ {c} : push'[b] = push[b]
        BY <1>1, <1>6 DEF CheckLayers, AnswerCheck
    <2> QED BY <1>2, <2>1, <2>2 DEF Keeps, TarStates, ImageStates
<1>7. ASSUME NEW c \in Clients, FinishTar(c) \/ LoadImage(c) \/ CopyLayer(c)
      PROVE  Kept
    <2>1. /\ push[c].state \in ImageStates /\ push[c].state \in TarStates
          /\ images' \subseteq images \cup {c}
        BY <1>7 DEF FinishTar, LoadImage, CopyLayer, storeVars, ImageStates, TarStates
    <2>2. \A b \in Clients \ {c} : push'[b] = push[b]
        BY <1>1, <1>7 DEF FinishTar, LoadImage, CopyLayer
    <2>3. push'[c].state # "uploading"
        <3>1. CASE FinishTar(c) \/ LoadImage(c)
            BY <1>1, <3>1 DEF FinishTar, LoadImage, Pushes
        <3>2. CASE CopyLayer(c)
            BY <1>1, <3>2 DEF CopyLayer, Pushes
        <3> QED BY <1>7, <3>1, <3>2
    <2>4. images' \subseteq images \cup In(ImageStates)
        BY <2>1 DEF In
    <2> QED BY <1>2, <2>1, <2>2, <2>3, <2>4 DEF Keeps
<1>8. ASSUME NEW c \in Clients, NEW d \in Layers, SaveLayer(c, d)
      PROVE  Kept
    <2>1. push'[c].state = push[c].state /\ push'[c].todo \subseteq push[c].todo /\ images' = images
        BY <1>1, <1>8 DEF SaveLayer, Pushes
    <2>2. \A b \in Clients \ {c} : push'[b] = push[b]
        BY <1>1, <1>8 DEF SaveLayer
    <2> QED BY <1>2, <2>1, <2>2 DEF Keeps
<1>9. CASE HourPasses
    <2>1. \A b \in Clients : push'[b].state = push[b].state /\ push'[b].todo = push[b].todo
        BY <1>1, <1>9 DEF HourPasses, Pushes
    <2> QED BY <1>9, <2>1 DEF HourPasses, Keeps
<1>10. ASSUME NEW c \in Clients, Preflight(c)
       PROVE  Kept \/ Commits(c)
    <2>1. CASE push' = push
        BY <1>3, <1>10, <2>1 DEF Preflight, storeVars
    <2>2. CASE push' # push
        <3>1. /\ Goto(c, "uploading") /\ UNCHANGED <<file, images, up>>
              /\ push[c].state = "preflight" /\ Fits(Cardinality(push[c].todo), Size(c))
            BY <1>10, <2>2 DEF Preflight, storeVars
        <3>2. "uploading" \in PushStates
            BY DEF PushStates
        <3> QED BY <3>1, <3>2, GotoFacts DEF Commits
    <2> QED BY <2>1, <2>2
<1>11. ASSUME NEW c \in Clients, CheckAssembly(c) \/ RecheckAssembly(c) \/ PreflightFull(c)
       PROVE  Kept \/ Commits(c)
    <2>1. UNCHANGED <<file, images, up>> /\ push[c].state \in {"assemble", "full"}
        BY <1>11 DEF CheckAssembly, RecheckAssembly, PreflightFull, storeVars
    <2>2. \A b \in Clients \ {c} : push'[b] = push[b]
        BY <1>1, <1>11 DEF CheckAssembly, RecheckAssembly, PreflightFull, Goto
    <2>3. \/ push' = push \/ push'[c].state = "full"
          \/ push'[c].state \in {"copy", "send"} /\ Fits(0, Size(c))
        <3>1. CASE CheckAssembly(c)
            BY <1>1, <3>1 DEF CheckAssembly, Goto, Pushes
        <3>2. CASE RecheckAssembly(c)
            BY <1>1, <3>2 DEF RecheckAssembly, Pushes
        <3>3. CASE PreflightFull(c)
            BY <1>1, <3>3 DEF PreflightFull, Goto, Pushes
        <3> QED BY <1>11, <3>1, <3>2, <3>3
    <2>4. CASE push' = push
        BY <1>3, <2>1, <2>4
    <2>5. CASE push'[c].state = "full"
        BY <1>2, <2>1, <2>2, <2>5 DEF Keeps, TarStates, ImageStates
    <2>6. CASE push'[c].state \in {"copy", "send"} /\ Fits(0, Size(c))
        BY <2>1, <2>2, <2>6 DEF Commits
    <2> QED BY <2>3, <2>4, <2>5, <2>6
<1>12. CASE \/ \E c \in Clients, d \in Layers :
                  BeginUpload(c, d) \/ NameLayer(c, d) \/ BreakUpload(c, d)
                  \/ FailToSave(c, d)
            \/ MaintenancePrune
            \/ \E p \in Pruners : \/ ListImages(p) \/ ListLayers(p) \/ DeleteRecord(p)
                                  \/ KeepRecord(p) \/ EndPrune(p)
                                  \/ \E d \in Layers : RemoveDirectory(p, d)
            \/ UNCHANGED vars
    BY <1>3, <1>12 DEF BeginUpload, NameLayer, BreakUpload, FailToSave, MaintenancePrune,
          ListImages, ListLayers, DeleteRecord, KeepRecord, EndPrune, RemoveDirectory,
          storeVars, vars
<1> QED BY <1>5, <1>6, <1>7, <1>8, <1>9, <1>10, <1>11, <1>12 DEF Next

StoresFit == \A s \in Stores : Cardinality(s) <= Capacity
ReserveCovers == \A c \in Clients : 2 * Total(Clients \ {c}) <= Reserve

(* What is counted grows only by what a check has found room for.          *)
LEMMA StepCost ==
    ASSUME IInv, IInv', [Next]_vars,
           ReserveCovers, Cost <= Capacity
    PROVE  Cost' <= Capacity
<1> DEFINE F == file \ Named
           T == In(TarStates)
           I == images \cup In(ImageStates)
<1>1. /\ file \subseteq Layers /\ images \subseteq Clients
      /\ file' \subseteq Layers /\ images' \subseteq Clients
      /\ push \in [Clients -> Pushes] /\ push' \in [Clients -> Pushes]
    BY DEF IInv, TypeOK
<1>2. /\ Cardinality(F) \in Nat /\ Cardinality(Uploading) \in Nat
      /\ Total(T) \in Nat /\ Total(I) \in Nat
      /\ F \in SUBSET Layers /\ Uploading \in SUBSET (Clients \X Layers)
      /\ T \in SUBSET Clients /\ I \in SUBSET Clients
    BY <1>1, CostTypes
<1>3. /\ Cardinality(F') \in Nat /\ Cardinality(Uploading') \in Nat
      /\ Total(T') \in Nat /\ Total(I') \in Nat
      /\ F' \in SUBSET Layers /\ Uploading' \in SUBSET (Clients \X Layers)
      /\ T' \in SUBSET Clients /\ I' \in SUBSET Clients
    <2>1. /\ F' \in SUBSET Layers /\ Uploading' \in SUBSET (Clients \X Layers)
          /\ T' \in SUBSET Clients /\ I' \in SUBSET Clients
        BY <1>1 DEF Uploading, In
    <2> HIDE DEF F, T, I
    <2> QED BY <2>1, FinitePairs, TotalIsNat
<1>4. /\ Cost = Cardinality(F) + Cardinality(Uploading) + Total(T) + Total(I)
      /\ Cost' = Cardinality(F') + Cardinality(Uploading') + Total(T') + Total(I')
    BY DEF Cost
<1> HIDE DEF F, T, I
<1>5. CASE \E c \in Clients : Commits(c)
    <2> PICK c \in Clients : Commits(c)
        BY <1>5
    <2> DEFINE n == Size(c)
               m == Cardinality(push[c].todo)
    <2>1. /\ n \in Nat /\ m \in Nat /\ Total({c}) <= n /\ Total({c}) \in Nat
          /\ push[c].todo \in SUBSET Layers
        <3>1. push[c].todo \in SUBSET Layers
            BY <1>1 DEF Pushes
        <3> QED BY <3>1, SizeFacts, TotalIsNat, FinitePairs
    <2>2. F' = F
        BY DEF Commits, F, Named
    <2>3. \A b \in Clients \ {c} : push'[b] = push[b]
        BY DEF Commits
    <2>4. Used \in Nat /\ Cost <= Used + Reserve
        <3>1. Cost <= Used + 2 * Total(Clients \ {c})
            BY CommittedByOthers DEF Commits, IInv
        <3>2. Used \in Nat /\ Total(Clients \ {c}) \in Nat
            BY UsedIsCounted, TotalIsNat DEF IInv
        <3>3. 2 * Total(Clients \ {c}) <= Reserve
            BY DEF ReserveCovers
        <3> QED BY <1>2, <1>4, <3>1, <3>2, <3>3, NumbersAssumption
    <2>5. CASE /\ push[c].state = "preflight" /\ push'[c].state = "uploading"
               /\ push'[c].todo = push[c].todo /\ Fits(m, n)
        <3> DEFINE new == {x \in Clients \X Layers : x[1] = c /\ x[2] \in push[c].todo}
        <3>1. T' = T /\ I' = I
            BY <2>3, <2>5 DEF Commits, T, I, In, TarStates, ImageStates
        <3>2. Uploading' \in SUBSET (Uploading \cup new)
            BY <2>3, <2>5 DEF Uploading
        <3>3. IsFiniteSet(new) /\ Cardinality(new) \in Nat /\ Cardinality(new) <= m
            BY <2>1, PairsOfOne
        <3> HIDE DEF new, n, m
        <3>4. Cardinality(Uploading') <= Cardinality(Uploading) + Cardinality(new)
            <4>1. /\ IsFiniteSet(Uploading) /\ IsFiniteSet(Uploading \cap new)
                  /\ Cardinality(Uploading \cap new) \in Nat
                BY <1>2, FinitePairs, FS_Intersection, FS_CardinalityType
            <4>2. /\ IsFiniteSet(Uploading \cup new)
                  /\ Cardinality(Uploading \cup new)
                       = Cardinality(Uploading) + Cardinality(new) - Cardinality(Uploading \cap new)
                BY <3>3, <4>1, FS_Union
            <4>3. Cardinality(Uploading') <= Cardinality(Uploading \cup new)
                BY <3>2, <4>2, FS_Subset
            <4> QED BY <1>2, <1>3, <3>3, <4>1, <4>2, <4>3
        <3>5. Used + Reserve + m + 2 * n <= Capacity
            BY <2>1, <2>4, <2>5, NumbersAssumption DEF Fits, Need, n, m
        <3>6. Cost' <= Cost + m
            BY <1>2, <1>3, <1>4, <2>1, <2>2, <3>1, <3>3, <3>4 DEF m
        <3> QED BY <1>2, <1>3, <1>4, <2>1, <2>4, <3>5, <3>6, NumbersAssumption DEF m, n
    <2>6. CASE /\ push[c].state \in {"assemble", "full"} /\ push'[c].state \in {"copy", "send"}
               /\ Fits(0, n)
        <3>1. Uploading' \in SUBSET Uploading
            BY <2>3, <2>6 DEF Uploading
        <3>2. T' \in SUBSET (T \cup {c}) /\ I' \in SUBSET (I \cup {c})
            BY <2>3, <2>6 DEF Commits, T, I, In, TarStates, ImageStates
        <3> HIDE DEF n, m
        <3>3. Cardinality(Uploading') <= Cardinality(Uploading)
            BY <1>2, <3>1, FinitePairs, FS_Subset
        <3>4. Total(T') <= Total(T) + Total({c})
            <4>1. T \cup {c} \in SUBSET Clients /\ Total(T \cup {c}) \in Nat
                BY <1>2, TotalIsNat
            <4>2. Total(T') <= Total(T \cup {c})
                BY <3>2, <4>1, TotalGrows
            <4>3. Total(T \cup {c}) <= Total(T) + Total({c})
                BY <1>2, TotalOfUnion
            <4> QED BY <1>2, <1>3, <2>1, <4>1, <4>2, <4>3
        <3>5. Total(I') <= Total(I) + Total({c})
            <4>1. I \cup {c} \in SUBSET Clients /\ Total(I \cup {c}) \in Nat
                BY <1>2, TotalIsNat
            <4>2. Total(I') <= Total(I \cup {c})
                BY <3>2, <4>1, TotalGrows
            <4>3. Total(I \cup {c}) <= Total(I) + Total({c})
                BY <1>2, TotalOfUnion
            <4> QED BY <1>2, <1>3, <2>1, <4>1, <4>2, <4>3
        <3>6. Used + Reserve + 2 * n <= Capacity
            BY <2>1, <2>4, <2>6, NumbersAssumption DEF Fits, Need, n
        <3>7. Cost' <= Cost + 2 * n
            BY <1>2, <1>3, <1>4, <2>1, <2>2, <3>3, <3>4, <3>5 DEF n
        <3> QED BY <1>2, <1>3, <1>4, <2>1, <2>4, <3>6, <3>7, NumbersAssumption DEF n
    <2> QED BY <2>5, <2>6 DEF Commits
<1>6. CASE (\A b \in Clients : Keeps(b)) /\ images' \subseteq images \cup In(ImageStates)
    <2>1. /\ T' \in SUBSET T /\ I' \in SUBSET I /\ Uploading' \in SUBSET Uploading
        BY <1>6 DEF Keeps, T, I, In, Uploading
    <2>2. Total(T') <= Total(T) /\ Total(I') <= Total(I)
        BY <1>2, <2>1, TotalGrows
    <2>3. CASE ~\E c \in Clients, d \in Layers : SaveLayer(c, d)
        <3>1. F' \in SUBSET F
            BY <2>3, NamedShrink DEF IInv, F
        <3>2. Cardinality(F') <= Cardinality(F) /\ Cardinality(Uploading') <= Cardinality(Uploading)
            BY <1>2, <2>1, <3>1, FinitePairs, FS_Subset
        <3> QED BY <1>2, <1>3, <1>4, <2>2, <3>2, NumbersAssumption
    <2>4. ASSUME NEW c \in Clients, NEW d \in Layers, SaveLayer(c, d)
          PROVE  Cost' <= Capacity
        <3>1. /\ up \in [Clients -> [Layers -> Uploads]] /\ up[c][d].stage = "named"
              /\ up' = [up EXCEPT ![c][d] = NoUpload] /\ file' = file
            BY <2>4 DEF IInv, TypeOK, SaveLayer
        <3>2. Named \subseteq Named' \cup {d}
            <4>1. \A b \in Clients, e \in Layers : e # d => up'[b][e] = up[b][e]
                BY <3>1
            <4> QED BY <4>1 DEF Named
        <3>3. F' \in SUBSET (F \cup {d})
            BY <3>1, <3>2 DEF F
        <3>4. <<c, d>> \in Uploading /\ <<c, d>> \notin Uploading'
            <4>1. push[c].state = "uploading" /\ d \in push[c].todo
                BY <3>1 DEF IInv, UploadsListed
            <4>2. d \notin push'[c].todo
                BY <1>1, <2>4 DEF SaveLayer, Pushes
            <4> QED BY <4>1, <4>2 DEF Uploading
        <3>5. Cardinality(F') <= Cardinality(F) + 1
            <4>1. IsFiniteSet(F)
                BY <1>2, FinitePairs
            <4>2. /\ IsFiniteSet(F \cup {d})
                  /\ Cardinality(F \cup {d}) = IF d \in F THEN Cardinality(F)
                                               ELSE Cardinality(F) + 1
                BY <4>1, FS_AddElement
            <4>3. Cardinality(F') <= Cardinality(F \cup {d})
                BY <3>3, <4>2, FS_Subset
            <4> QED BY <1>2, <1>3, <4>2, <4>3
        <3>6. Cardinality(Uploading') <= Cardinality(Uploading) - 1
            <4>1. IsFiniteSet(Uploading)
                BY <1>2, FinitePairs
            <4>2. /\ IsFiniteSet(Uploading \ {<<c, d>>})
                  /\ Cardinality(Uploading \ {<<c, d>>}) = Cardinality(Uploading) - 1
                BY <3>4, <4>1, FS_RemoveElement
            <4>3. Uploading' \in SUBSET (Uploading \ {<<c, d>>})
                BY <2>1, <3>4
            <4> QED BY <4>2, <4>3, FS_Subset
        <3> QED BY <1>2, <1>3, <1>4, <2>2, <3>5, <3>6, NumbersAssumption
    <2> QED BY <2>3, <2>4
<1> QED BY <1>5, <1>6, StepCommitments DEF IInv

(* If what was stored before fits the disk, and the reserve is as large as *)
(* the tars and the images of any push's competitors together, then pushes *)
(* and prunes in whatever order never fill the disk.  Each of the handlers *)
(* checks the disk for its own push only, and long before the push writes  *)
(* (disk_space.go, buildDiskSpaceRequirements).                            *)
THEOREM DiskSuffices == StoresFit /\ ReserveCovers => (Spec => []DiskHolds)
<1> SUFFICES ASSUME StoresFit, ReserveCovers PROVE Spec => []DiskHolds
    OBVIOUS
<1>1. Init => Cost <= Capacity
    <2> SUFFICES ASSUME Init PROVE Cost <= Capacity
        OBVIOUS
    <2>1. \A c \in Clients : push[c].state = "start" /\ \A d \in Layers : up[c][d].stage = "none"
        BY DEF Init, NoPush, NoUpload
    <2>2. /\ file \ Named = file /\ Uploading = {} /\ In(TarStates) = {}
          /\ images \cup In(ImageStates) = {}
        BY <2>1 DEF Init, Named, Uploading, In, TarStates, ImageStates
    <2>3. file \in SUBSET Layers /\ Cardinality(file) <= Capacity
        BY SetsAssumption DEF Init, StoresFit
    <2>4. Total({}) = 0 /\ Cardinality({}) = 0
        <3>1. Pairs({}) = {}
            BY DEF Pairs
        <3> QED BY <3>1, FS_EmptySet DEF Total, Pairs
    <2>5. Cardinality(file) \in Nat
        BY <2>3, FinitePairs
    <2>6. /\ Cardinality(file \ Named) = Cardinality(file) /\ Cardinality(Uploading) = 0
          /\ Total(In(TarStates)) = 0 /\ Total(images \cup In(ImageStates)) = 0
        BY <2>2, <2>4
    <2> QED BY <2>3, <2>5, <2>6 DEF Cost
<1>2. IInv /\ Cost <= Capacity /\ [Next]_vars => (Cost <= Capacity)'
    BY StepIInv, StepCost
<1>3. IInv /\ Cost <= Capacity => DiskHolds
    <2> SUFFICES ASSUME IInv, Cost <= Capacity PROVE Used <= Capacity
        BY DEF DiskHolds
    <2>1. Used \in Nat /\ Used <= Cost
        BY UsedIsCounted DEF IInv
    <2>2. Cost \in Nat
        BY CostTypes DEF Cost, IInv, TypeOK
    <2> QED BY <2>1, <2>2, NumbersAssumption
<1> QED BY <1>1, <1>2, <1>3, InitIInv, StepIInv, PTL DEF Spec

==============================================================================
