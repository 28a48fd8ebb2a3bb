-------------------------- MODULE ResultCellsProofs --------------------------
(***************************************************************************)
(* Proofs about the images of the result cells, for any number of cells,   *)
(* rows and downloads.                                                     *)
(***************************************************************************)
EXTENDS ResultCells, TLAPS

(* No download belongs to a later use of a cell than the present one, and  *)
(* one that belongs to the present use brings the image of its labels.     *)
DownloadsAreInOrder ==
  \A r \in loading :
    /\ r.use <= use[r.cell]
    /\ Own(r) => r.blog = label[r.cell]

Explained(c) ==
  \/ image[c] = label[c]
  \/ OwnIsDue(c)
  \/ c \in displaced
  \/ \E r \in missed : r.cell = c /\ Own(r)

ImagesAreExplained == \A c \in Cells : use[c] = 0 \/ Explained(c)

RowsHaveUsedCells == \A i \in DOMAIN cellOf : cellOf[i] \in Cells /\ use[cellOf[i]] > 0

IInv == TypeOK /\ DownloadsAreInOrder /\ ImagesAreExplained /\ RowsHaveUsedCells
-----------------------------------------------------------------------------
LEMMA InitIInv == Init => IInv
<1> SUFFICES ASSUME Init PROVE IInv
  OBVIOUS
<1> USE CellsAssumption DEF Init
<1>1. DOMAIN cellOf = {}
  OBVIOUS
<1>2. blogArray \in Seq(Blogs) /\ Len(blogArray) <= MaxRows
  OBVIOUS
<1>3. DOMAIN cellOf \subseteq 1 .. MaxRows /\ Range(cellOf) \subseteq Cells /\ IsInjective(cellOf)
  BY <1>1 DEF Range, IsInjective
<1>4. use \in [Cells -> 0 .. MaxUses]
  OBVIOUS
<1>5. TypeOK
  BY <1>2, <1>3, <1>4 DEF TypeOK
<1> QED
  BY <1>1, <1>5 DEF IInv, DownloadsAreInOrder, ImagesAreExplained, RowsHaveUsedCells

LEMMA CellForRowFacts ==
  ASSUME IInv, NEW i \in DOMAIN blogArray, NEW c \in Cells, CellForRow(i, c)
  PROVE  /\ i \in 1 .. MaxRows /\ blogArray[i] \in Blogs
         /\ use[c] \in Nat /\ use' = [use EXCEPT ![c] = use[c] + 1] /\ use[c] + 1 \in 1 .. MaxUses
         /\ label' = [label EXCEPT ![c] = blogArray[i]]
         /\ LET own == [cell |-> c, use |-> use[c] + 1, blog |-> blogArray[i]] IN
            \/ loading' = loading \cup {own} /\ missed' = missed
            \/ missed' = missed \cup {own} /\ loading' = loading
         /\ DOMAIN cellOf' = DOMAIN cellOf \cup {i} /\ cellOf'[i] = c
         /\ i \notin DOMAIN cellOf
         /\ \A j \in DOMAIN cellOf : cellOf'[j] = cellOf[j] /\ cellOf[j] # c
         /\ displaced' = displaced \ {c} /\ UNCHANGED <<blogArray, image>>
<1>1. /\ blogArray \in Seq(Blogs) /\ Len(blogArray) <= MaxRows /\ use \in [Cells -> 0 .. MaxUses]
  BY DEF IInv, TypeOK
<1>2. i \in 1 .. Len(blogArray) /\ Len(blogArray) \in Nat /\ blogArray[i] \in Blogs
  BY <1>1
<1>3. i \in 1 .. MaxRows
  BY <1>1, <1>2, CellsAssumption
<1>4. use[c] \in 0 .. MaxUses /\ use[c] < MaxUses /\ use' = [use EXCEPT ![c] = use[c] + 1]
  BY <1>1 DEF CellForRow
<1>5. use'[c] = use[c] + 1 /\ use[c] + 1 \in 1 .. MaxUses
  BY <1>1, <1>4, CellsAssumption
<1>6. \A j \in DOMAIN cellOf : cellOf[j] # c
  BY DEF CellForRow, Range
<1> QED
  BY <1>2, <1>3, <1>4, <1>5, <1>6 DEF CellForRow, StartDownload

LEMMA NextIInv == IInv /\ [Next]_vars => IInv'
<1> SUFFICES ASSUME IInv, [Next]_vars PROVE IInv'
  OBVIOUS
<1>0. /\ TypeOK /\ DownloadsAreInOrder /\ ImagesAreExplained /\ RowsHaveUsedCells
      /\ loading \subseteq Downloads /\ missed \subseteq Downloads
      /\ \A r \in Downloads : /\ r.cell \in Cells /\ r.use \in Nat /\ r.blog \in Blogs
                              /\ r = [cell |-> r.cell, use |-> r.use, blog |-> r.blog]
      /\ \A c \in Cells : use[c] \in Nat
  BY DEF IInv, TypeOK, Downloads
<1>1. CASE SearchBarSearchButtonClicked
  BY <1>0, <1>1, CellsAssumption
     DEF SearchBarSearchButtonClicked, IInv, TypeOK, DownloadsAreInOrder, ImagesAreExplained,
         RowsHaveUsedCells, Own, OwnIsDue, Explained
<1>2. ASSUME NEW b \in Blogs, Retrieved(b) PROVE IInv'
  <2>1. /\ blogArray' \in Seq(Blogs) /\ Len(blogArray') <= MaxRows /\ cellOf' = << >>
        /\ UNCHANGED <<use, label, image, loading, missed, displaced>>
    BY <1>0, <1>2, CellsAssumption DEF Retrieved, TypeOK
  <2>2. DOMAIN cellOf' = {}
    BY <2>1
  <2>3. Range(cellOf') \subseteq Cells /\ IsInjective(cellOf')
    BY <2>2 DEF Range, IsInjective
  <2> QED
    BY <1>0, <2>1, <2>2, <2>3
       DEF IInv, TypeOK, DownloadsAreInOrder, ImagesAreExplained, RowsHaveUsedCells, Own,
           OwnIsDue, Explained
<1>3. ASSUME NEW i \in DOMAIN cellOf, ScrolledAway(i) PROVE IInv'
  <2>1. /\ DOMAIN cellOf' = DOMAIN cellOf \ {i} /\ \A j \in DOMAIN cellOf' : cellOf'[j] = cellOf[j]
        /\ UNCHANGED <<blogArray, use, label, image, loading, missed, displaced>>
    BY <1>3 DEF ScrolledAway, Restrict
  <2>2. Range(cellOf') \subseteq Cells /\ IsInjective(cellOf')
    BY <1>0, <2>1 DEF TypeOK, Range, IsInjective
  <2> QED
    BY <1>0, <2>1, <2>2
       DEF IInv, TypeOK, DownloadsAreInOrder, ImagesAreExplained, RowsHaveUsedCells, Own,
           OwnIsDue, Explained
<1>4. ASSUME NEW i \in DOMAIN blogArray, NEW c \in Cells, CellForRow(i, c) PROVE IInv'
  <2> DEFINE own == [cell |-> c, use |-> use[c] + 1, blog |-> blogArray[i]]
  <2>1. /\ i \in 1 .. MaxRows /\ blogArray[i] \in Blogs
        /\ use[c] \in Nat /\ use' = [use EXCEPT ![c] = use[c] + 1] /\ use[c] + 1 \in 1 .. MaxUses
        /\ label' = [label EXCEPT ![c] = blogArray[i]]
        /\ \/ loading' = loading \cup {own} /\ missed' = missed
           \/ missed' = missed \cup {own} /\ loading' = loading
        /\ DOMAIN cellOf' = DOMAIN cellOf \cup {i} /\ cellOf'[i] = c
        /\ i \notin DOMAIN cellOf
        /\ \A j \in DOMAIN cellOf : cellOf'[j] = cellOf[j] /\ cellOf[j] # c
        /\ displaced' = displaced \ {c} /\ UNCHANGED <<blogArray, image>>
    BY <1>4, CellForRowFacts
  <2>2. own \in Downloads /\ own.cell = c /\ own.use = use[c] + 1 /\ own.blog = blogArray[i]
    BY <2>1 DEF Downloads
  <2> HIDE DEF own
  <2>3. /\ \A d \in Cells \ {c} : use'[d] = use[d] /\ label'[d] = label[d]
        /\ use'[c] = use[c] + 1 /\ label'[c] = blogArray[i]
    BY <1>0, <2>1 DEF TypeOK
  <2>4. Range(cellOf') \subseteq Cells /\ IsInjective(cellOf')
    BY <1>0, <2>1 DEF TypeOK, Range, IsInjective
  <2>5. use' \in [Cells -> 0 .. MaxUses] /\ label' \in [Cells -> Blogs \cup {NoBlog}]
    <3>1. use[c] + 1 \in 0 .. MaxUses
      BY <2>1
    <3> QED
      BY <1>0, <2>1, <3>1 DEF TypeOK
  <2>6. TypeOK'
    BY <1>0, <2>1, <2>2, <2>4, <2>5 DEF TypeOK
  <2>7. ASSUME NEW r \in loading' PROVE r.use <= use'[r.cell] /\ (Own(r)' => r.blog = label'[r.cell])
    <3>1. CASE r = own
      BY <2>1, <2>2, <2>3, <3>1
    <3>2. CASE r \in loading /\ r.cell = c
      BY <1>0, <2>1, <2>3, <3>2 DEF DownloadsAreInOrder, Own
    <3>3. CASE r \in loading /\ r.cell # c
      BY <1>0, <2>3, <3>3 DEF DownloadsAreInOrder, Own
    <3> QED
      BY <2>1, <2>7, <3>1, <3>2, <3>3
  <2>8. ASSUME NEW d \in Cells PROVE use'[d] = 0 \/ Explained(d)'
    <3>1. CASE d = c
      BY <2>1, <2>2, <2>3, <3>1 DEF Explained, OwnIsDue, Own
    <3>2. CASE d # c
      BY <1>0, <2>1, <2>3, <3>2 DEF ImagesAreExplained, Explained, OwnIsDue, Own
    <3> QED
      BY <3>1, <3>2
  <2>9. RowsHaveUsedCells'
    BY <1>0, <2>1, <2>3 DEF RowsHaveUsedCells
  <2> QED
    BY <2>6, <2>7, <2>8, <2>9 DEF IInv, DownloadsAreInOrder, ImagesAreExplained
<1>5. ASSUME NEW r \in loading, ImageDownloaded(r) PROVE IInv'
  <2>1. /\ loading' = loading \ {r} /\ image' = [image EXCEPT ![r.cell] = r.blog]
        /\ displaced' = IF Own(r) \/ OwnIsDue(r.cell) THEN displaced ELSE displaced \cup {r.cell}
        /\ UNCHANGED <<blogArray, cellOf, use, label, missed>> /\ r.cell \in Cells /\ r.blog \in Blogs
    BY <1>0, <1>5 DEF ImageDownloaded
  <2>2. TypeOK'
    BY <1>0, <2>1 DEF TypeOK
  <2>3. DownloadsAreInOrder' /\ RowsHaveUsedCells'
    BY <1>0, <2>1 DEF DownloadsAreInOrder, RowsHaveUsedCells, Own
  <2>4. image'[r.cell] = r.blog /\ \A d \in Cells \ {r.cell} : image'[d] = image[d]
    BY <1>0, <2>1 DEF TypeOK
  <2>5. ASSUME NEW d \in Cells, use[d] # 0 PROVE Explained(d)'
    <3>1. CASE d # r.cell
      BY <1>0, <2>1, <2>4, <2>5, <3>1 DEF ImagesAreExplained, Explained, OwnIsDue, Own
    <3>2. CASE d = r.cell /\ Own(r)
      BY <1>0, <2>1, <2>4, <3>2 DEF DownloadsAreInOrder, Explained
    <3>3. CASE d = r.cell /\ ~Own(r) /\ OwnIsDue(d)
      BY <2>1, <3>3 DEF Explained, OwnIsDue, Own
    <3>4. CASE d = r.cell /\ ~Own(r) /\ ~OwnIsDue(d)
      BY <2>1, <3>4 DEF Explained
    <3> QED
      BY <3>1, <3>2, <3>3, <3>4
  <2> QED
    BY <2>1, <2>2, <2>3, <2>5 DEF IInv, ImagesAreExplained
<1>6. ASSUME NEW r \in loading, DownloadFailed(r) PROVE IInv'
  <2>1. /\ loading' = loading \ {r} /\ missed' = missed \cup {r}
        /\ UNCHANGED <<blogArray, cellOf, use, label, image, displaced>>
    BY <1>6 DEF DownloadFailed
  <2>2. TypeOK' /\ DownloadsAreInOrder' /\ RowsHaveUsedCells'
    BY <1>0, <2>1 DEF TypeOK, DownloadsAreInOrder, RowsHaveUsedCells, Own
  <2>3. ASSUME NEW d \in Cells, use[d] # 0 PROVE Explained(d)'
    <3>1. Explained(d)
      BY <1>0, <2>3 DEF ImagesAreExplained
    <3>2. OwnIsDue(d) => OwnIsDue(d)' \/ \E m \in missed' : m.cell = d /\ Own(m)'
      BY <2>1 DEF OwnIsDue, Own
    <3> QED
      BY <2>1, <3>1, <3>2 DEF Explained, Own
  <2> QED
    BY <2>1, <2>2, <2>3 DEF IInv, ImagesAreExplained
<1>7. CASE ImageTraps
  <2>1. /\ blogArray' = << >> /\ cellOf' = << >> /\ use' = [c \in Cells |-> 0]
        /\ label' = [c \in Cells |-> NoBlog] /\ image' = [c \in Cells |-> NoBlog]
        /\ loading' = {} /\ missed' = {} /\ displaced' = {}
    BY <1>7 DEF ImageTraps
  <2>2. DOMAIN cellOf' = {} /\ blogArray' \in Seq(Blogs) /\ Len(blogArray') <= MaxRows
    BY <2>1, CellsAssumption
  <2>3. Range(cellOf') \subseteq Cells /\ IsInjective(cellOf')
    BY <2>2 DEF Range, IsInjective
  <2>4. use' \in [Cells -> 0 .. MaxUses]
    BY <2>1, CellsAssumption
  <2>5. TypeOK'
    BY <2>1, <2>2, <2>3, <2>4 DEF TypeOK
  <2> QED
    BY <2>1, <2>2, <2>5 DEF IInv, DownloadsAreInOrder, ImagesAreExplained, RowsHaveUsedCells
<1>8. CASE UNCHANGED vars
  BY <1>0, <1>8
     DEF vars, IInv, TypeOK, DownloadsAreInOrder, ImagesAreExplained, RowsHaveUsedCells, Own,
         OwnIsDue, Explained
<1> QED
  BY <1>1, <1>2, <1>3, <1>4, <1>5, <1>6, <1>7, <1>8 DEF Next

LEMMA InvariantHolds == Spec => []IInv
BY InitIInv, NextIInv, PTL DEF Spec
-----------------------------------------------------------------------------
(* The variables of the cells keep to their types; no cell has two rows.   *)
THEOREM TypeCorrect == Spec => []TypeOK
BY InvariantHolds, PTL DEF IInv

(* Every image that is not that of its row's blog is on its way, failed,   *)
(* or was replaced by a late answer (displayImageInformation).             *)
THEOREM WrongImageAlwaysExplained == Spec => []WrongImageIsExplained
<1>1. IInv => WrongImageIsExplained
  <2> SUFFICES ASSUME IInv, NEW i \in DOMAIN cellOf PROVE Explained(cellOf[i])
    BY DEF WrongImageIsExplained, Explained
  <2> QED
    BY DEF IInv, RowsHaveUsedCells, ImagesAreExplained
<1> QED
  BY <1>1, InvariantHolds, PTL

(* A right image is lost only to the download of an earlier use.           *)
THEOREM LostOnlyToReuse == Spec => RightImageLostOnlyToReuse
<1> DEFINE A == \A c \in Cells :
                  (image[c] = label[c] /\ image'[c] # label'[c] /\ use'[c] = use[c]) =>
                     \E r \in loading : r.cell = c /\ r.use < use[c] /\ r.blog = image'[c]
<1>1. ASSUME IInv, [Next]_vars, NEW c \in Cells, image[c] = label[c], image'[c] # label'[c],
             use'[c] = use[c]
      PROVE  \E r \in loading : r.cell = c /\ r.use < use[c] /\ r.blog = image'[c]
  <2>1. ASSUME NEW i \in DOMAIN blogArray, NEW d \in Cells, CellForRow(i, d) PROVE FALSE
    <3>1. /\ use[d] \in Nat /\ use' = [use EXCEPT ![d] = use[d] + 1]
          /\ label' = [label EXCEPT ![d] = blogArray[i]] /\ image' = image
      BY <1>1, <2>1, CellForRowFacts
    <3>2. c # d
      BY <1>1, <3>1 DEF IInv, TypeOK
    <3> QED
      BY <1>1, <3>1, <3>2 DEF IInv, TypeOK
  <2>2. ASSUME NEW r \in loading, ImageDownloaded(r)
        PROVE  r.cell = c /\ r.use < use[c] /\ r.blog = image'[c]
    <3>1. image' = [image EXCEPT ![r.cell] = r.blog] /\ label' = label
      BY <2>2 DEF ImageDownloaded
    <3>2. r.cell = c /\ image'[c] = r.blog
      BY <1>1, <3>1 DEF IInv, TypeOK
    <3>3. ~Own(r) /\ r.use <= use[c] /\ r.use \in Nat /\ use[c] \in Nat
      BY <1>1, <3>1, <3>2 DEF IInv, DownloadsAreInOrder, TypeOK, Downloads
    <3> QED
      BY <3>2, <3>3 DEF Own
  <2>3. ~ImageTraps
    BY <1>1 DEF ImageTraps
  <2>4. (/\ \A i \in DOMAIN blogArray, d \in Cells : ~CellForRow(i, d)
         /\ \A r \in loading : ~ImageDownloaded(r)) => UNCHANGED <<image, label>>
    BY <1>1, <2>3 DEF Next, vars, SearchBarSearchButtonClicked, Retrieved, ScrolledAway, DownloadFailed
  <2> QED
    BY <1>1, <2>1, <2>2, <2>4
<1>2. IInv /\ [Next]_vars => [A]_vars
  BY <1>1
<1> QED
  BY <1>2, InvariantHolds, PTL DEF Spec, RightImageLostOnlyToReuse
=============================================================================
