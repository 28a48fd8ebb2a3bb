-------------------------- MODULE TravelShotProofs --------------------------
(***************************************************************************)
(* Proofs about the image of a blog, for any number of choices and pages.  *)
(***************************************************************************)
EXTENDS TravelShot, TLAPS

(* Choices are made one after the other, on later and later pages.         *)
MadeInOrder ==
  /\ \A i \in Made : madeOn[i] \in 1 .. page
  /\ \A i, j \in Choices : (j \in Made /\ i < j) => i \in Made /\ madeOn[i] <= madeOn[j]

LoadingIsUploaded == \A i \in loading : stage[i] = "done"

(* As long as none overlap, only the last choice made is under way, and    *)
(* the URL kept is that of the last image uploaded.                        *)
OneAtATime ==
  ~overlapped => \A i, j \in Choices : (UnderWay(i) /\ j \in Made) => j <= i

LastIsSaved == ~overlapped => \A i \in Choices : stage[i] = "done" => i <= saved

(* Once it is downloaded, the page it was chosen on shows it.              *)
DownloadedIsShown ==
  (~overlapped /\ saved # None /\ saved \notin loading \cup missed) =>
    shown[madeOn[saved]] = saved

IInv ==
  /\ TypeOK /\ SavedIsUploaded /\ MadeInOrder /\ LoadingIsUploaded
  /\ OneAtATime /\ LastIsSaved /\ DownloadedIsShown
-----------------------------------------------------------------------------
LEMMA InitIInv == Init => IInv
<1> SUFFICES ASSUME Init PROVE IInv
  OBVIOUS
<1> USE ShotAssumption DEF Init, Choices, Pages, None
<1>1. TypeOK
  <2>1. page \in Pages /\ saved \in Choices \cup {None}
    OBVIOUS
  <2>2. /\ stage \in [Choices -> {"unused", "putting", "linking", "done", "failed"}]
        /\ madeOn \in [Choices -> Pages \cup {None}]
    OBVIOUS
  <2>3. /\ shown \in [Pages -> Choices \cup {None}]
        /\ published \in [Pages -> Choices \cup {None}]
    OBVIOUS
  <2> QED
    BY <2>1, <2>2, <2>3 DEF TypeOK
<1>2. SavedIsUploaded /\ MadeInOrder /\ LoadingIsUploaded
  BY DEF SavedIsUploaded, MadeInOrder, LoadingIsUploaded, Made
<1>3. OneAtATime /\ LastIsSaved /\ DownloadedIsShown
  BY DEF OneAtATime, LastIsSaved, DownloadedIsShown, Made
<1> QED
  BY <1>1, <1>2, <1>3 DEF IInv

LEMMA NextTypeOK == TypeOK /\ [Next]_vars => TypeOK'
<1> SUFFICES ASSUME TypeOK, [Next]_vars PROVE TypeOK'
  OBVIOUS
<1> USE ShotAssumption DEF TypeOK, Pages, None
<1>1. CASE CreateNewBlogTapped
  BY <1>1 DEF CreateNewBlogTapped
<1>2. ASSUME NEW i \in Choices, DidFinishPicking(i) PROVE TypeOK'
  BY <1>2 DEF DidFinishPicking
<1>3. ASSUME NEW i \in Choices, UploadFailed(i) PROVE TypeOK'
  BY <1>3 DEF UploadFailed
<1>4. ASSUME NEW i \in Choices, PutDone(i) PROVE TypeOK'
  BY <1>4 DEF PutDone
<1>5. ASSUME NEW i \in Choices, DownloadURLAnswered(i) PROVE TypeOK'
  BY <1>5 DEF DownloadURLAnswered
<1>6. ASSUME NEW i \in Choices, ImageDownloaded(i) PROVE TypeOK'
  BY <1>6 DEF ImageDownloaded
<1>7. ASSUME NEW i \in Choices, DownloadFailed(i) PROVE TypeOK'
  BY <1>7 DEF DownloadFailed
<1>8. CASE PublishBlogButtonTapped
  BY <1>8 DEF PublishBlogButtonTapped
<1>9. CASE Restart
  BY <1>9 DEF Restart
<1>10. CASE UNCHANGED vars
  BY <1>10 DEF vars
<1> QED
  BY <1>1, <1>2, <1>3, <1>4, <1>5, <1>6, <1>7, <1>8, <1>9, <1>10 DEF Next, Traps

LEMMA NextOrder ==
  IInv /\ TypeOK' /\ [Next]_vars => SavedIsUploaded' /\ MadeInOrder' /\ LoadingIsUploaded'
<1> DEFINE Q == SavedIsUploaded /\ MadeInOrder /\ LoadingIsUploaded
<1> SUFFICES ASSUME IInv, TypeOK', [Next]_vars PROVE Q'
  OBVIOUS
<1>0. TypeOK /\ Q
  BY DEF IInv
<1> USE ShotAssumption, <1>0
        DEF SavedIsUploaded, MadeInOrder, LoadingIsUploaded, Made, TypeOK, Choices, Pages, None
<1>1. CASE CreateNewBlogTapped
  BY <1>1 DEF CreateNewBlogTapped
<1>2. ASSUME NEW i \in Choices, DidFinishPicking(i) PROVE Q'
  <2>1. /\ stage[i] = "unused" /\ stage' = [stage EXCEPT ![i] = "putting"]
        /\ madeOn' = [madeOn EXCEPT ![i] = page] /\ \A j \in Choices : j < i => stage[j] # "unused"
        /\ UNCHANGED <<page, loading, saved, published>>
    BY <1>2 DEF DidFinishPicking
  <2>2. SavedIsUploaded' /\ LoadingIsUploaded'
    BY <2>1
  <2>3. MadeInOrder'
    BY <2>1
  <2> QED
    BY <2>2, <2>3
<1>3. ASSUME NEW i \in Choices, UploadFailed(i) PROVE Q'
  BY <1>3 DEF UploadFailed
<1>4. ASSUME NEW i \in Choices, PutDone(i) PROVE Q'
  BY <1>4 DEF PutDone
<1>5. ASSUME NEW i \in Choices, DownloadURLAnswered(i) PROVE Q'
  BY <1>5 DEF DownloadURLAnswered
<1>6. ASSUME NEW i \in Choices, ImageDownloaded(i) PROVE Q'
  BY <1>6 DEF ImageDownloaded
<1>7. ASSUME NEW i \in Choices, DownloadFailed(i) PROVE Q'
  BY <1>7 DEF DownloadFailed
<1>8. CASE PublishBlogButtonTapped
  BY <1>8 DEF PublishBlogButtonTapped
<1>9. CASE Restart
  <2>1. \A i \in Choices : stage'[i] = stage[i] \/ (stage'[i] = "failed" /\ stage[i] \notin {"unused", "done"})
    BY <1>9 DEF Restart, UnderWay
  <2>2. page' = page + 1 /\ loading' = {} /\ UNCHANGED <<madeOn, saved, published>>
    BY <1>9 DEF Restart
  <2>3. SavedIsUploaded' /\ LoadingIsUploaded'
    BY <2>1, <2>2
  <2>4. MadeInOrder'
    BY <2>1, <2>2
  <2> QED
    BY <2>3, <2>4
<1>10. CASE UNCHANGED vars
  BY <1>10 DEF vars
<1> QED
  BY <1>1, <1>2, <1>3, <1>4, <1>5, <1>6, <1>7, <1>8, <1>9, <1>10 DEF Next, Traps

LEMMA NextLast ==
  IInv /\ TypeOK' /\ [Next]_vars => OneAtATime' /\ LastIsSaved' /\ DownloadedIsShown'
<1> DEFINE Q == OneAtATime /\ LastIsSaved /\ DownloadedIsShown
<1> SUFFICES ASSUME IInv, TypeOK', [Next]_vars PROVE Q'
  OBVIOUS
<1>0. TypeOK /\ SavedIsUploaded /\ MadeInOrder /\ LoadingIsUploaded /\ Q
  BY DEF IInv
<1> USE ShotAssumption, <1>0
        DEF OneAtATime, LastIsSaved, DownloadedIsShown, UnderWay, Made, TypeOK, Choices,
            Pages, None
<1>1. CASE CreateNewBlogTapped
  BY <1>1 DEF CreateNewBlogTapped
<1>2. ASSUME NEW i \in Choices, DidFinishPicking(i) PROVE Q'
  <2>1. /\ stage[i] = "unused" /\ stage' = [stage EXCEPT ![i] = "putting"]
        /\ madeOn' = [madeOn EXCEPT ![i] = page] /\ overlapped' = (overlapped \/ ~Quiet)
        /\ UNCHANGED <<loading, saved, shown, missed>>
    BY <1>2 DEF DidFinishPicking
  <2>2. ASSUME ~overlapped' PROVE \A j \in Choices : ~UnderWay(j)
    BY <2>1, <2>2 DEF Quiet
  <2>3. \A j \in Made : j <= i
    BY <2>1 DEF MadeInOrder
  <2>4. OneAtATime'
    BY <2>1, <2>2, <2>3
  <2>5. LastIsSaved'
    BY <2>1
  <2>6. DownloadedIsShown'
    BY <2>1 DEF SavedIsUploaded
  <2> QED
    BY <2>4, <2>5, <2>6
<1>3. ASSUME NEW i \in Choices, UploadFailed(i) PROVE Q'
  BY <1>3 DEF UploadFailed
<1>4. ASSUME NEW i \in Choices, PutDone(i) PROVE Q'
  BY <1>4 DEF PutDone
<1>5. ASSUME NEW i \in Choices, DownloadURLAnswered(i) PROVE Q'
  BY <1>5 DEF DownloadURLAnswered
<1>6. ASSUME NEW i \in Choices, ImageDownloaded(i) PROVE Q'
  <2>1. ~overlapped => i = saved
    BY <1>6 DEF ImageDownloaded, LoadingIsUploaded, SavedIsUploaded
  <2>2. /\ loading' = loading \ {i} /\ shown' = [shown EXCEPT ![madeOn[i]] = i]
        /\ UNCHANGED <<stage, madeOn, saved, overlapped, missed>> /\ i \in Made
    BY <1>6 DEF ImageDownloaded, LoadingIsUploaded
  <2>3. madeOn[i] \in Pages
    BY <2>2 DEF MadeInOrder
  <2> QED
    BY <2>1, <2>2, <2>3
<1>7. ASSUME NEW i \in Choices, DownloadFailed(i) PROVE Q'
  BY <1>7 DEF DownloadFailed
<1>8. CASE PublishBlogButtonTapped
  BY <1>8 DEF PublishBlogButtonTapped
<1>9. CASE Restart
  <2>1. \A i \in Choices : /\ stage'[i] \notin {"putting", "linking"}
                           /\ stage'[i] = "done" <=> stage[i] = "done"
    BY <1>9 DEF Restart
  <2>2. loading' = {} /\ missed' = missed \cup loading
        /\ UNCHANGED <<madeOn, saved, shown, overlapped>>
    BY <1>9 DEF Restart
  <2> QED
    BY <2>1, <2>2
<1>10. CASE UNCHANGED vars
  BY <1>10 DEF vars
<1> QED
  BY <1>1, <1>2, <1>3, <1>4, <1>5, <1>6, <1>7, <1>8, <1>9, <1>10 DEF Next, Traps

LEMMA InvariantHolds == Spec => []IInv
<1>1. IInv /\ [Next]_vars => IInv'
  BY NextTypeOK, NextOrder, NextLast DEF IInv
<1> QED
  BY <1>1, InitIInv, PTL DEF Spec
-----------------------------------------------------------------------------
(* The variables of the travel shot keep to their types.                   *)
THEOREM TypeCorrect == Spec => []TypeOK
BY InvariantHolds, PTL DEF IInv

(* No failure and no restart leaves, or publishes, the URL of an object    *)
(* that was not uploaded.                                                  *)
THEOREM SavedAlwaysUploaded == Spec => []SavedIsUploaded
BY InvariantHolds, PTL DEF IInv

(* Without overlapping choices, what a page shows at rest is what would be *)
(* published.                                                              *)
THEOREM ShownAlwaysSaved == Spec => []ShownIsSaved
<1>1. IInv => ShownIsSaved
  BY DEF IInv, DownloadedIsShown, ShownIsSaved, Quiet, UnderWay, TypeOK, None
<1> QED
  BY <1>1, InvariantHolds, PTL

(* Without overlapping choices, the URL of an earlier choice never         *)
(* replaces that of a later one.                                           *)
THEOREM NeverGoesBack == Spec => SavedNeverGoesBack
<1>1. IInv /\ [Next]_vars => (~overlapped => saved' >= saved)
  <2> SUFFICES ASSUME IInv, [Next]_vars, ~overlapped PROVE saved' >= saved
    OBVIOUS
  <2>1. saved \in Nat
    BY ShotAssumption DEF IInv, TypeOK, Choices, None
  <2>2. ASSUME NEW i \in Choices, DownloadURLAnswered(i) PROVE saved' >= saved
    <3>1. saved' = i /\ UnderWay(i) /\ i \in Nat
      BY <2>2, ShotAssumption DEF DownloadURLAnswered, UnderWay, Choices
    <3>2. CASE saved = None
      BY <3>1, <3>2 DEF None
    <3>3. CASE saved # None
      BY <3>1, <3>3 DEF IInv, OneAtATime, SavedIsUploaded, TypeOK, Made
    <3> QED
      BY <3>2, <3>3
  <2>3. (\A i \in Choices : ~DownloadURLAnswered(i)) => saved' = saved
    BY DEF Next, vars, Traps, CreateNewBlogTapped, DidFinishPicking, UploadFailed, PutDone,
           ImageDownloaded, DownloadFailed, PublishBlogButtonTapped, Restart
  <2> QED
    BY <2>1, <2>2, <2>3
<1>2. IInv /\ [Next]_vars => [~overlapped => saved' >= saved]_vars
  BY <1>1
<1> QED
  BY <1>2, InvariantHolds, PTL DEF Spec, SavedNeverGoesBack

(* Without overlapping choices, the image of another page is published     *)
(* only from a page that has no image of its own.                          *)
THEOREM OwnImageAlwaysPublished == Spec => OwnImageIsPublished
<1> DEFINE A == \A g \in Pages :
                  (~overlapped /\ published'[g] # published[g] /\ madeOn[published'[g]] # g) =>
                     \A i \in Made : madeOn[i] = g => stage[i] # "done"
<1>1. IInv /\ [Next]_vars => A
  <2> SUFFICES ASSUME IInv, [Next]_vars, NEW g \in Pages, ~overlapped,
                      published'[g] # published[g], madeOn[published'[g]] # g,
                      NEW i \in Made, madeOn[i] = g, stage[i] = "done"
               PROVE  FALSE
    OBVIOUS
  <2>1. PublishBlogButtonTapped
    BY DEF Next, vars, Traps, CreateNewBlogTapped, DidFinishPicking, UploadFailed, PutDone,
           DownloadURLAnswered, ImageDownloaded, DownloadFailed, Restart
  <2>2. g = page /\ published'[g] = saved /\ saved # None
    BY <2>1 DEF PublishBlogButtonTapped, IInv, TypeOK
  <2>3. /\ i \in Choices /\ i <= saved /\ saved \in Choices /\ saved \in Made
        /\ madeOn[saved] # g
    BY <2>2 DEF IInv, LastIsSaved, SavedIsUploaded, TypeOK, Made
  <2>4. i < saved
    BY <2>3, ShotAssumption DEF Choices
  <2>5. madeOn[i] <= madeOn[saved] /\ madeOn[saved] \in 1 .. page
    BY <2>3, <2>4 DEF IInv, MadeInOrder
  <2> QED
    BY <2>2, <2>3, <2>5, ShotAssumption DEF IInv, TypeOK, Pages
<1>2. IInv /\ [Next]_vars => [A]_vars
  BY <1>1
<1> QED
  BY <1>2, InvariantHolds, PTL DEF Spec, OwnImageIsPublished
=============================================================================
