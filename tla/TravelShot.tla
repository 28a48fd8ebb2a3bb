----------------------------- MODULE TravelShot -----------------------------
(***************************************************************************)
(* The image of a blog, on one device (CreateNewBlogViewController).  An   *)
(* image chosen on a page is uploaded, its download URL asked for and kept *)
(* under the key "url" of UserDefaults, and the image downloaded again to  *)
(* be shown.  Publish takes whatever URL is kept.  The three requests of a *)
(* choice are made one after the other; those of two choices are answered  *)
(* in any order.                                                           *)
(*                                                                         *)
(* Choices are numbered as they are made.  The picker gives each a file    *)
(* name of its own, so each has a stored object and a URL of its own.      *)
(* Pages are numbered as they are opened; no page is ever returned to.     *)
(***************************************************************************)
EXTENDS Naturals

CONSTANTS
  MaxChoices,   \* bound on the images chosen
  MaxPages      \* bound on the pages opened

ASSUME ShotAssumption == MaxChoices \in Nat /\ MaxPages \in Nat \ {0}

Choices == 1 .. MaxChoices
Pages == 1 .. MaxPages
None == 0       \* no image, no URL

VARIABLES
  page,       \* the Create New Blog page that is shown
  stage,      \* how far the upload of each choice has got
  madeOn,     \* the page each choice was made on
  loading,    \* choices whose image is being downloaded
  saved,      \* UserDefaults "url", by its choice
  shown,      \* the image view of each page, by its choice
  published,  \* history: the last URL published from each page
  overlapped, \* history: were two choices ever under way together?
  missed      \* history: choices whose download failed

vars == <<page, stage, madeOn, loading, saved, shown, published, overlapped, missed>>

UnderWay(i) == stage[i] \in {"putting", "linking"} \/ i \in loading
Quiet == \A i \in Choices : ~UnderWay(i)
Made == {i \in Choices : stage[i] # "unused"}

Init ==
  /\ page = 1
  /\ stage = [i \in Choices |-> "unused"]
  /\ madeOn = [i \in Choices |-> None]
  /\ loading = {}
  /\ saved = None
  /\ shown = [g \in Pages |-> None]
  /\ published = [g \in Pages |-> None]
  /\ overlapped = FALSE
  /\ missed = {}

(* Another page is opened, from the search page or from a blog. *)
CreateNewBlogTapped ==
  /\ page < MaxPages
  /\ page' = page + 1
  /\ UNCHANGED <<stage, madeOn, loading, saved, shown, published, overlapped, missed>>

(* The picker's delegate, past its three guards. *)
DidFinishPicking(i) ==
  /\ stage[i] = "unused"
  /\ \A j \in Choices : j < i => stage[j] # "unused"
  /\ stage' = [stage EXCEPT ![i] = "putting"]
  /\ madeOn' = [madeOn EXCEPT ![i] = page]
  /\ overlapped' = (overlapped \/ ~Quiet)
  /\ UNCHANGED <<page, loading, saved, shown, published, missed>>

(* Faulty: a failed upload takes the kept URL back. *)
UploadFailedForgets(i) ==
  /\ stage[i] \in {"putting", "linking"}
  /\ stage' = [stage EXCEPT ![i] = "failed"]
  /\ saved' = None
  /\ UNCHANGED <<page, madeOn, loading, shown, published, overlapped, missed>>

(* A request of the upload fails, and the closure returns. *)
UploadFailed(i) ==
  /\ stage[i] \in {"putting", "linking"}
  /\ stage' = [stage EXCEPT ![i] = "failed"]
  /\ UNCHANGED <<page, madeOn, loading, saved, shown, published, overlapped, missed>>

PutDone(i) ==
  /\ stage[i] = "putting"
  /\ stage' = [stage EXCEPT ![i] = "linking"]
  /\ UNCHANGED <<page, madeOn, loading, saved, shown, published, overlapped, missed>>

(* Faulty: a URL that is there is not replaced. *)
DownloadURLAnsweredOnce(i) ==
  /\ stage[i] = "linking"
  /\ stage' = [stage EXCEPT ![i] = "done"]
  /\ saved' = IF saved = None THEN i ELSE saved
  /\ loading' = loading \cup {saved'}
  /\ UNCHANGED <<page, madeOn, shown, published, overlapped, missed>>

(* The URL is kept, and displayImage, which reads it back at once, starts  *)
(* the download.                                                           *)
DownloadURLAnswered(i) ==
  /\ stage[i] = "linking"
  /\ stage' = [stage EXCEPT ![i] = "done"]
  /\ saved' = i
  /\ loading' = loading \cup {saved'}
  /\ UNCHANGED <<page, madeOn, shown, published, overlapped, missed>>

(* Faulty: the image goes to the page that happens to be shown. *)
ImageDownloadedOnTop(i) ==
  /\ i \in loading
  /\ loading' = loading \ {i}
  /\ shown' = [shown EXCEPT ![page] = i]
  /\ UNCHANGED <<page, stage, madeOn, saved, published, overlapped, missed>>

ImageDownloaded(i) ==
  /\ i \in loading
  /\ loading' = loading \ {i}
  /\ shown' = [shown EXCEPT ![madeOn[i]] = i]
  /\ UNCHANGED <<page, stage, madeOn, saved, published, overlapped, missed>>

DownloadFailed(i) ==
  /\ i \in loading
  /\ loading' = loading \ {i}
  /\ missed' = missed \cup {i}
  /\ UNCHANGED <<page, stage, madeOn, saved, shown, published, overlapped>>

(* Publish, with a user signed in: the URL goes into the blog. *)
PublishBlogButtonTapped ==
  /\ saved # None
  /\ published' = [published EXCEPT ![page] = saved]
  /\ UNCHANGED <<page, stage, madeOn, loading, saved, shown, overlapped, missed>>

(* The process ends and the app is opened again; only UserDefaults stays.  *)
Restart ==
  /\ page < MaxPages
  /\ page' = page + 1
  /\ stage' = [i \in Choices |-> IF UnderWay(i) /\ stage[i] # "done"
                                   THEN "failed" ELSE stage[i]]
  /\ loading' = {}
  /\ missed' = missed \cup loading
  /\ UNCHANGED <<madeOn, saved, shown, published, overlapped>>

(* What ends it from inside: publishing without a URL (forced cast of nil) *)
(* and a download whose bytes are no image (forced unwrap of nil).         *)
Traps == (saved = None \/ loading # {}) /\ Restart

Next ==
  \/ CreateNewBlogTapped
  \/ \E i \in Choices :
       \/ DidFinishPicking(i)
       \/ UploadFailed(i)
       \/ PutDone(i)
       \/ DownloadURLAnswered(i)
       \/ ImageDownloaded(i)
       \/ DownloadFailed(i)
  \/ PublishBlogButtonTapped
  \/ Restart
  \/ Traps

Spec == Init /\ [][Next]_vars
-----------------------------------------------------------------------------
TypeOK ==
  /\ page \in Pages
  /\ stage \in [Choices -> {"unused", "putting", "linking", "done", "failed"}]
  /\ madeOn \in [Choices -> Pages \cup {None}]
  /\ loading \subseteq Choices
  /\ saved \in Choices \cup {None}
  /\ shown \in [Pages -> Choices \cup {None}]
  /\ published \in [Pages -> Choices \cup {None}]
  /\ overlapped \in BOOLEAN
  /\ missed \subseteq Choices

(* A URL that is kept, or was published, belongs to an image that had been *)
(* uploaded completely: no failure and no restart leaves the URL of an     *)
(* object that is not there (lines 51 to 62, 142).                         *)
SavedIsUploaded ==
  /\ saved # None => stage[saved] = "done"
  /\ \A g \in Pages : published[g] # None => stage[published[g]] = "done"

(* As long as the user waits for each image before choosing the next, what *)
(* the page shows at rest is what Publish would take, on the page where    *)
(* the image was chosen, unless its download failed.                       *)
ShownIsSaved ==
  (~overlapped /\ Quiet /\ saved \notin missed \cup {None}) =>
    shown[madeOn[saved]] = saved

(* Under the same condition the URL kept is never replaced by that of an   *)
(* earlier choice.                                                         *)
SavedNeverGoesBack == [][~overlapped => saved' >= saved]_vars

(* "Choose an image from the Photo Library and display it on the Create    *)
(* New Blog page" (line 37): at rest a page shows the last image chosen on *)
(* it that was uploaded and downloaded without failure.                    *)
ChosenIsDisplayed ==
  Quiet => \A i \in Choices :
    (/\ stage[i] = "done" /\ i \notin missed
     /\ \A j \in Made : madeOn[j] = madeOn[i] => j <= i) =>
      shown[madeOn[i]] = i

(* Under the same condition a page publishes the image of another page,    *)
(* kept from before, only when it has none of its own: line 142 takes      *)
(* whatever URL there is, and the uploads of line 52 may outlive a page.   *)
OwnImageIsPublished ==
  [][\A g \in Pages :
       (~overlapped /\ published'[g] # published[g] /\ madeOn[published'[g]] # g) =>
         \A i \in Made : madeOn[i] = g => stage[i] # "done"]_vars
=============================================================================
