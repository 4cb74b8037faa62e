----------------------------- MODULE LayerStore -----------------------------
(***************************************************************************)
(* Pushing images to the server in layers: the CLI's UploadImage           *)
(* (internal/haloy/deploy_builder.go), the handlers it calls               *)
(* (internal/api/handlers_image_*.go, disk_space.go), the layer store with *)
(* its files and database records (internal/layerstore, internal/storage/  *)
(* models_layers.go), and the pruning of unused layers, which runs in the  *)
(* main loop and inside requests that find too little disk space.          *)
(*                                                                         *)
(* Sizes are counted in layers: a tar of an image, or the image in Docker, *)
(* takes as much as its layers.  All paths are on one file system.  The    *)
(* CLI streams its uploads, so that the upload handlers see no length and  *)
(* skip their check of the disk; the preflight request and the assembly    *)
(* check it.                                                               *)
(***************************************************************************)
EXTENDS Integers, FiniteSets

CONSTANTS
    Layers,
    Clients,      (* Invocations of UploadImage, one image each.           *)
    Image,        (* Image[c]: the layers of c's image.                    *)
    Known,        (* The clients whose app has a deployment recorded.      *)
    Uncompressed, (* Layers whose digest is the diff ID Docker reports.    *)
    Stores,       (* Sets of layers that may have been stored long ago.    *)
    Main,         (* haloyd's main loop, which prunes from time to time.   *)
    Retries,      (* layerUploadMaxRetries                                 *)
    Capacity,     (* The size of the disk.                                 *)
    Reserve,      (* DefaultImageDiskReserve                               *)
    Budget,       (* Bound: how many incidents happen: failed operations,  *)
                  (* maintenance prunes, and hours that pass.              *)
    None

ASSUME FiniteAssumption == IsFiniteSet(Layers) /\ IsFiniteSet(Clients)
ASSUME ImageAssumption == Image \in [Clients -> SUBSET Layers]
ASSUME SetsAssumption ==
    /\ Known \subseteq Clients /\ Main \notin Clients
    /\ Uncompressed \subseteq Layers /\ Stores \subseteq SUBSET Layers /\ None \notin Layers
ASSUME NumbersAssumption ==
    Retries \in Nat /\ Capacity \in Nat /\ Reserve \in Nat /\ Budget \in Nat

VARIABLES
    file,    (* The digests whose layer.tar is in the store.               *)
    temp,    (* Temporary files in the layers' directories, by client.     *)
    record,  (* record[d]: the row in the layers table, or None.           *)
    images,  (* The images in Docker, by the client that pushed them.      *)
    push,    (* push[c]: how far UploadImage is.                           *)
    up,      (* up[c][d]: the upload of one layer, and attempts so far.    *)
    prune,   (* prune[p]: a run of PruneUnusedLayers.                      *)
    left     (* What is left of Budget.                                    *)

storeVars == <<file, temp, record, images>>
vars == <<storeVars, push, up, prune, left>>

Pruners == Clients \cup {Main}
Rows == [recent : BOOLEAN, linked : BOOLEAN]

PushStates ==
    {"start", "touch", "preflight", "uploading", "assemble", "copy", "load",
     "full", "send", "loadfull", "loaded", "done", "failed"}

(* promise: layers the server has reported or stored within the hour.      *)
NoPush == [state |-> "start", todo |-> {}, promise |-> {}]
NoUpload == [stage |-> "none", tries |-> 0]
NoPrune == [state |-> "idle", images |-> {}, todo |-> {}, layer |-> None, pruned |-> FALSE]

Pushes == [state : PushStates, todo : SUBSET Layers, promise : SUBSET Layers]
Uploads == [stage : {"none", "writing", "named"}, tries : 0 .. Retries + 1]
Prunes == [state : {"idle", "images", "layers", "delete", "record", "end"},
           images : SUBSET Clients, todo : SUBSET Layers,
           layer : Layers \cup {None}, pruned : BOOLEAN]

TypeOK ==
    /\ file \subseteq Layers /\ temp \subseteq Clients \X Layers
    /\ record \in [Layers -> Rows \cup {None}]
    /\ images \subseteq Clients
    /\ push \in [Clients -> Pushes]
    /\ up \in [Clients -> [Layers -> Uploads]]
    /\ prune \in [Pruners -> Prunes]
    /\ left \in 0 .. Budget
    /\ \A c \in Clients, d \in Layers :
           <<c, d>> \in temp => up[c][d].stage = "writing"

Incident == left > 0 /\ left' = left - 1

Goto(c, state) == push' = [push EXCEPT ![c].state = state]

(***************************************************************************)
(* Disk space                                                              *)
(***************************************************************************)

(* parseImageTar: the layers in the tar that docker save has written, with *)
(* directories named by content digest.                                    *)
Digests(c) == Image[c]

Size(c) == Cardinality(Digests(c))

Tars == {c \in Clients : push[c].state \in {"load", "loadfull", "loaded"}}

(* The sizes of all these images together.                                 *)
Total(cs) == Cardinality({x \in cs \X Layers : x[2] \in Image[x[1]]})

Used == Cardinality(file) + Cardinality(temp) + Total(Tars) + Total(images)

(* Mutant: the largest contribution counts, not their sum.                 *)
NeedMax(upload, image) == Reserve + (IF image > upload THEN image ELSE upload)

(* buildDiskSpaceRequirements: what is uploaded, the tar and Docker's copy *)
(* add up on one device, with the reserve.                                 *)
Need(upload, image) == Reserve + upload + 2 * image

Fits(upload, image) == Capacity - Used >= Need(upload, image)

(***************************************************************************)
(* UploadImage                                                             *)
(***************************************************************************)

(* handleLayerCheck: the records are read, not the files.                  *)
CheckLayers(c) ==
    /\ push[c].state = "start"
    /\ push' = [push EXCEPT ![c].state = "touch",
                            ![c].todo = {d \in Digests(c) : record[d] = None}]
    /\ UNCHANGED <<storeVars, up, prune, left>>

Touch(ds) ==
    record' = [d \in Layers |->
                  IF d \in ds /\ record[d] /= None
                  THEN [record[d] EXCEPT !.recent = TRUE] ELSE record[d]]

(* Mutant: layers reported as cached are not touched.                      *)
TouchNone(c) == UNCHANGED record

(* What is reported as cached is touched.                                  *)
TouchCached(c) == Touch(Digests(c) \ push[c].todo)

AnswerCheck(c) ==
    /\ push[c].state = "touch"
    /\ TouchCached(c)
    /\ push' = [push EXCEPT ![c].state = "preflight",
                            ![c].promise = Digests(c) \ push[c].todo]
    /\ UNCHANGED <<file, temp, images, up, prune, left>>

StartPrune(p) ==
    /\ prune[p].state = "idle"
    /\ prune' = [prune EXCEPT ![p] = [NoPrune EXCEPT !.state = "images"]]

(* handleImageDiskSpaceCheck answers with what it found before it pruned:  *)
(* its second check returns the first result.                              *)
Preflight(c) ==
    /\ push[c].state = "preflight" /\ prune[c].state = "idle"
    /\ IF Fits(Cardinality(push[c].todo), Size(c))
       THEN Goto(c, "uploading") /\ UNCHANGED prune
       ELSE StartPrune(c) /\ UNCHANGED push
    /\ UNCHANGED <<storeVars, up, left>>

PreflightRefused(c) ==
    /\ push[c].state = "preflight" /\ prune[c].state = "end"
    /\ Goto(c, "full")
    /\ prune' = [prune EXCEPT ![c] = NoPrune]
    /\ UNCHANGED <<storeVars, up, left>>

(* Mutant: an upload that failed is not tried again.                       *)
BeginOnce(c, d) ==
    /\ push[c].state = "uploading" /\ d \in push[c].todo
    /\ up[c][d].stage = "none" /\ up[c][d].tries < Retries
    /\ up' = [up EXCEPT ![c][d].stage = "writing"]
    /\ temp' = temp \cup {<<c, d>>}
    /\ UNCHANGED <<file, record, images, push, prune, left>>

(* One of at most four uploads at a time: the temporary file.              *)
BeginUpload(c, d) ==
    /\ push[c].state = "uploading" /\ d \in push[c].todo
    /\ up[c][d].stage = "none" /\ up[c][d].tries <= Retries
    /\ \A e \in Layers : up[c][e].tries <= Retries
    /\ up' = [up EXCEPT ![c][d].stage = "writing"]
    /\ temp' = temp \cup {<<c, d>>}
    /\ UNCHANGED <<file, record, images, push, prune, left>>

FailedUpload(c, d) == up' = [up EXCEPT ![c][d] = [stage |-> "none", tries |-> @.tries + 1]]

(* The digest is right and the file takes its name, unless its directory   *)
(* has been pruned meanwhile.                                              *)
NameLayer(c, d) ==
    /\ up[c][d].stage = "writing"
    /\ IF <<c, d>> \in temp
       THEN /\ file' = file \cup {d}
            /\ up' = [up EXCEPT ![c][d].stage = "named"]
       ELSE FailedUpload(c, d) /\ UNCHANGED file
    /\ temp' = temp \ {<<c, d>>}
    /\ UNCHANGED <<record, images, push, prune, left>>

(* Mutant: a broken upload leaves its temporary file.                      *)
BreakLeavingFile(c, d) ==
    /\ up[c][d].stage = "writing" /\ Incident
    /\ FailedUpload(c, d)
    /\ UNCHANGED <<file, temp, record, images, push, prune>>

(* The connection breaks, or the server cannot write.                      *)
BreakUpload(c, d) ==
    /\ up[c][d].stage = "writing" /\ Incident
    /\ temp' = temp \ {<<c, d>>}
    /\ FailedUpload(c, d)
    /\ UNCHANGED <<file, record, images, push, prune>>

(* INSERT OR REPLACE: the diff ID of an older row is gone.                 *)
SaveLayer(c, d) ==
    /\ up[c][d].stage = "named"
    /\ record' = [record EXCEPT ![d] = [recent |-> TRUE, linked |-> FALSE]]
    /\ up' = [up EXCEPT ![c][d] = NoUpload]
    /\ push' = [push EXCEPT ![c].todo = @ \ {d}, ![c].promise = @ \cup {d}]
    /\ UNCHANGED <<file, temp, images, prune, left>>

(* The file is removed again, whoever else may have stored it.             *)
FailToSave(c, d) ==
    /\ up[c][d].stage = "named" /\ Incident
    /\ file' = file \ {d}
    /\ FailedUpload(c, d)
    /\ UNCHANGED <<temp, record, images, push, prune>>

(* A layer has failed too often: the others are cancelled, and the image   *)
(* is pushed as a whole.                                                   *)
GiveUpLayers(c) ==
    /\ push[c].state = "uploading"
    /\ \E d \in Layers : up[c][d].tries > Retries
    /\ \A d \in Layers : up[c][d].stage /= "named"
    /\ Goto(c, "full")
    /\ up' = [up EXCEPT ![c] = [d \in Layers |-> NoUpload]]
    /\ temp' = {t \in temp : t[1] /= c}
    /\ UNCHANGED <<file, record, images, prune, left>>

Uploaded(c) ==
    /\ push[c].state = "uploading" /\ push[c].todo = {}
    /\ Goto(c, "assemble")
    /\ UNCHANGED <<storeVars, up, prune, left>>

(* handleImageAssemble: the size of the tar is estimated from the files.   *)
CheckAssembly(c) ==
    /\ push[c].state = "assemble" /\ prune[c].state = "idle"
    /\ IF ~ Image[c] \subseteq file
       THEN Goto(c, "full") /\ UNCHANGED prune
       ELSE IF Fits(0, Size(c))
       THEN /\ push' = [push EXCEPT ![c].state = "copy", ![c].todo = Image[c]]
            /\ UNCHANGED prune
       ELSE StartPrune(c) /\ UNCHANGED push
    /\ UNCHANGED <<storeVars, up, left>>

(* ensureDiskSpaceOrPruneLayers: one more check if anything was pruned.    *)
RecheckAssembly(c) ==
    /\ push[c].state = "assemble" /\ prune[c].state = "end"
    /\ push' = [push EXCEPT
                  ![c].state = IF prune[c].pruned /\ Image[c] \subseteq file /\ Fits(0, Size(c))
                               THEN "copy" ELSE "full",
                  ![c].todo = Image[c]]
    /\ prune' = [prune EXCEPT ![c] = NoPrune]
    /\ UNCHANGED <<storeVars, up, left>>

(* AssembleImageTar copies one layer after the other, in some fixed order.  *)
CopyLayer(c) ==
    /\ push[c].state = "copy" /\ push[c].todo /= {}
    /\ LET d == CHOOSE d \in push[c].todo : TRUE
       IN push' = IF d \in file
                  THEN [push EXCEPT ![c].todo = @ \ {d}]
                  ELSE [push EXCEPT ![c].state = "full"]
    /\ UNCHANGED <<storeVars, up, prune, left>>

(* The layers are touched, and their diff IDs recorded.                    *)
FinishTar(c) ==
    /\ push[c].state = "copy" /\ push[c].todo = {}
    /\ record' = [d \in Layers |->
                     IF d \in Image[c] /\ record[d] /= None
                     THEN [recent |-> TRUE, linked |-> TRUE] ELSE record[d]]
    /\ push' = [push EXCEPT ![c].state = "load", ![c].promise = Image[c]]
    /\ UNCHANGED <<file, temp, images, up, prune, left>>

(* docker load, while the tar is still there.                              *)
LoadImage(c) ==
    /\ push[c].state \in {"load", "loadfull"}
    /\ images' = images \cup {c}
    /\ push' = [push EXCEPT ![c].state = "loaded", ![c].promise = {}]
    /\ UNCHANGED <<file, temp, record, up, prune, left>>

(* The handler removes the tar and answers.                                *)
EndPush(c) ==
    /\ push[c].state = "loaded"
    /\ Goto(c, "done")
    /\ UNCHANGED <<storeVars, up, prune, left>>

FailToLoad(c) ==
    /\ push[c].state \in {"load", "loadfull"} /\ Incident
    /\ Goto(c, IF push[c].state = "load" THEN "full" ELSE "failed")
    /\ UNCHANGED <<storeVars, up, prune>>

(* The whole image: preflight, upload and load.  A refusal is the error of *)
(* UploadImage.                                                            *)
PreflightFull(c) ==
    /\ push[c].state = "full" /\ prune[c].state = "idle"
    /\ IF Fits(0, Size(c))
       THEN Goto(c, "send") /\ UNCHANGED prune
       ELSE StartPrune(c) /\ UNCHANGED push
    /\ UNCHANGED <<storeVars, up, left>>

FullRefused(c) ==
    /\ push[c].state = "full" /\ prune[c].state = "end"
    /\ Goto(c, "failed")
    /\ prune' = [prune EXCEPT ![c] = NoPrune]
    /\ UNCHANGED <<storeVars, up, left>>

SendImage(c) ==
    /\ push[c].state = "send"
    /\ Goto(c, "loadfull")
    /\ UNCHANGED <<storeVars, up, prune, left>>

(***************************************************************************)
(* PruneUnusedLayers                                                       *)
(***************************************************************************)

MaintenancePrune ==
    /\ Incident
    /\ StartPrune(Main)
    /\ UNCHANGED <<storeVars, push, up>>

(* The images of the apps that have deployments.                           *)
ListImages(p) ==
    /\ prune[p].state = "images"
    /\ prune' = [prune EXCEPT ![p].state = "layers", ![p].images = images \cap Known]
    /\ UNCHANGED <<storeVars, push, up, left>>

Unneeded(d, imgs) ==
    /\ record[d] /= None /\ ~record[d].recent
    /\ ~ \E c \in imgs : d \in Image[c] /\ (d \in Uncompressed \/ record[d].linked)

ListLayers(p) ==
    /\ prune[p].state = "layers"
    /\ prune' = [prune EXCEPT ![p].state = "delete",
                              ![p].todo = {d \in Layers : Unneeded(d, prune[p].images)}]
    /\ UNCHANGED <<storeVars, push, up, left>>

(* DeleteLayer: the directory with all it holds, then the record.          *)
RemoveDirectory(p, d) ==
    /\ prune[p].state = "delete" /\ d \in prune[p].todo
    /\ file' = file \ {d}
    /\ temp' = {t \in temp : t[2] /= d}
    /\ prune' = [prune EXCEPT ![p].state = "record", ![p].layer = d, ![p].todo = @ \ {d}]
    /\ UNCHANGED <<record, images, push, up, left>>

DeleteRecord(p) ==
    /\ prune[p].state = "record"
    /\ record' = [record EXCEPT ![prune[p].layer] = None]
    /\ prune' = [prune EXCEPT ![p].state = "delete", ![p].layer = None, ![p].pruned = TRUE]
    /\ UNCHANGED <<file, temp, images, push, up, left>>

(* The database fails: the record stays without its file.                  *)
KeepRecord(p) ==
    /\ prune[p].state = "record" /\ Incident
    /\ prune' = [prune EXCEPT ![p].state = "delete", ![p].layer = None]
    /\ UNCHANGED <<storeVars, push, up>>

EndPrune(p) ==
    /\ prune[p].state = "delete" /\ prune[p].todo = {}
    /\ prune' = [prune EXCEPT ![p].state = IF p = Main THEN "idle" ELSE "end"]
    /\ UNCHANGED <<storeVars, push, up, left>>

(* The cutoff: an hour passes without use.                                 *)
HourPasses ==
    /\ Incident
    /\ record' = [d \in Layers |->
                     IF record[d] = None THEN None ELSE [record[d] EXCEPT !.recent = FALSE]]
    /\ push' = [c \in Clients |-> [push[c] EXCEPT !.promise = {}]]
    /\ UNCHANGED <<file, temp, images, up, prune>>

(***************************************************************************)
(* The specification                                                       *)
(***************************************************************************)

Init ==
    /\ file \in Stores /\ temp = {} /\ images = {}
    /\ record = [d \in Layers |->
                    IF d \in file THEN [recent |-> FALSE, linked |-> TRUE] ELSE None]
    /\ push = [c \in Clients |-> NoPush]
    /\ up = [c \in Clients |-> [d \in Layers |-> NoUpload]]
    /\ prune = [p \in Pruners |-> NoPrune]
    /\ left = Budget

Next ==
    \/ \E c \in Clients : CheckLayers(c)
    \/ \E c \in Clients : AnswerCheck(c)
    \/ \E c \in Clients : Preflight(c)
    \/ \E c \in Clients : PreflightRefused(c)
    \/ \E c \in Clients, d \in Layers : BeginUpload(c, d)
    \/ \E c \in Clients, d \in Layers : NameLayer(c, d)
    \/ \E c \in Clients, d \in Layers : BreakUpload(c, d)
    \/ \E c \in Clients, d \in Layers : SaveLayer(c, d)
    \/ \E c \in Clients, d \in Layers : FailToSave(c, d)
    \/ \E c \in Clients : GiveUpLayers(c)
    \/ \E c \in Clients : Uploaded(c)
    \/ \E c \in Clients : CheckAssembly(c)
    \/ \E c \in Clients : RecheckAssembly(c)
    \/ \E c \in Clients : CopyLayer(c)
    \/ \E c \in Clients : FinishTar(c)
    \/ \E c \in Clients : LoadImage(c)
    \/ \E c \in Clients : EndPush(c)
    \/ \E c \in Clients : FailToLoad(c)
    \/ \E c \in Clients : PreflightFull(c)
    \/ \E c \in Clients : FullRefused(c)
    \/ \E c \in Clients : SendImage(c)
    \/ MaintenancePrune
    \/ \E p \in Pruners : ListImages(p)
    \/ \E p \in Pruners : ListLayers(p)
    \/ \E p \in Pruners, d \in Layers : RemoveDirectory(p, d)
    \/ \E p \in Pruners : DeleteRecord(p)
    \/ \E p \in Pruners : KeepRecord(p)
    \/ \E p \in Pruners : EndPrune(p)
    \/ HourPasses

Spec == Init /\ [][Next]_vars

PruneStep(p) ==
    \/ ListImages(p) \/ ListLayers(p) \/ DeleteRecord(p) \/ EndPrune(p)
    \/ \E d \in Layers : RemoveDirectory(p, d)

PushStep(c) ==
    \/ CheckLayers(c) \/ AnswerCheck(c) \/ Preflight(c) \/ PreflightRefused(c)
    \/ \E d \in Layers : BeginUpload(c, d) \/ NameLayer(c, d) \/ SaveLayer(c, d)
    \/ GiveUpLayers(c) \/ Uploaded(c)
    \/ CheckAssembly(c) \/ RecheckAssembly(c)
    \/ CopyLayer(c)
    \/ FinishTar(c) \/ LoadImage(c) \/ EndPush(c)
    \/ PreflightFull(c) \/ FullRefused(c) \/ SendImage(c)

(* The CLI and the handlers that serve it go on; nothing is fair about     *)
(* failures, maintenance and time.                                         *)
FairSpec == Spec /\ \A c \in Clients : WF_vars(PushStep(c) \/ PruneStep(c))

(***************************************************************************)
(* Properties                                                              *)
(***************************************************************************)

(* What the server has just reported as cached, stored or assembled, for a *)
(* push that is not over, is never judged unused by a prune that looks     *)
(* afterwards: that of the main loop, of the other push, or its own.       *)
(* (handleLayerCheck touches what it reports, against exactly that.)       *)
PromisedNotListed ==
    [][\A p \in Pruners, c \in Clients :
          prune[p].state = "layers" /\ prune'[p].state = "delete" =>
              prune'[p].todo \cap push[c].promise = {}]_vars

(* Pushes that run together never fill the disk, although each checks it   *)
(* by itself and long before it writes, provided the reserve is as large   *)
(* as what the others may need (buildDiskSpaceRequirements adds it on top  *)
(* of the sum of what a push writes).                                      *)
DiskHolds == Used <= Capacity

(* Every push ends, with the image in Docker or an error: layers that are  *)
(* pruned under it, records without files, failed uploads and refused disk *)
(* space lead to the full upload and nowhere round in circles.             *)
PushesEnd == <>(\A c \in Clients : push[c].state \in {"done", "failed"})
=============================================================================
