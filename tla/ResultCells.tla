----------------------------- MODULE ResultCells -----------------------------
(***************************************************************************)
(* The cells of the search page's table (SearchViewController, BlogCell).  *)
(* UIKit keeps a few cells and gives a row one that no row uses, with      *)
(* whatever image it had: cellForRowAt sets the three labels at once and   *)
(* starts a download whose answer sets the image of that cell, whichever   *)
(* row has it by then.  Nothing cancels a download or clears an image.     *)
(* Uses of a cell are numbered.  An answer counts from the moment its      *)
(* block runs on the main thread.                                          *)
(***************************************************************************)
EXTENDS Naturals, Sequences, Functions

CONSTANTS
  Blogs,     \* blogs found, each with an image of its own
  NoBlog,    \* the image and the labels of the nib
  Cells,     \* cells the table has; there are as many rows on screen at most
  MaxRows,   \* bound on the results of one search
  MaxUses    \* bound on the times a cell is configured

ASSUME CellsAssumption ==
  /\ NoBlog \notin Blogs
  /\ MaxRows \in Nat
  /\ MaxUses \in Nat

Downloads == [cell : Cells, use : 1 .. MaxUses, blog : Blogs]

VARIABLES
  blogArray,  \* the results, one row each
  cellOf,     \* the cell of each row that is on screen
  use,        \* how often each cell was configured
  label,      \* the blog named by its labels
  image,      \* the blog its image belongs to
  loading,    \* downloads not answered
  missed,     \* history: downloads that failed, or had no URL
  displaced   \* history: cells whose row had its image replaced by a late one

vars == <<blogArray, cellOf, use, label, image, loading, missed, displaced>>

Init ==
  /\ blogArray = << >>
  /\ cellOf = << >>
  /\ use = [c \in Cells |-> 0]
  /\ label = [c \in Cells |-> NoBlog]
  /\ image = [c \in Cells |-> NoBlog]
  /\ loading = {}
  /\ missed = {}
  /\ displaced = {}

(* A search empties blogArray; the rows on screen stay (module Search).    *)
SearchBarSearchButtonClicked ==
  /\ blogArray' = << >>
  /\ UNCHANGED <<cellOf, use, label, image, loading, missed, displaced>>

(* A result comes in, and the table is reloaded: it takes all cells back.  *)
Retrieved(b) ==
  /\ Len(blogArray) < MaxRows
  /\ blogArray' = Append(blogArray, b)
  /\ cellOf' = << >>
  /\ UNCHANGED <<use, label, image, loading, missed, displaced>>

(* The row leaves the screen and gives its cell back. *)
ScrolledAway(i) ==
  /\ i \in DOMAIN cellOf
  /\ cellOf' = Restrict(cellOf, DOMAIN cellOf \ {i})
  /\ UNCHANGED <<blogArray, use, label, image, loading, missed, displaced>>

(* Faulty: an image the cell has already is not downloaded again, whoever  *)
(* may still replace it.                                                   *)
StartDownloadOnce(c, b) ==
  /\ loading' = IF image[c] # NoBlog THEN loading
                ELSE loading \cup {[cell |-> c, use |-> use'[c], blog |-> b]}
  /\ UNCHANGED missed

(* displayImageInformation: nothing is asked for with a string that is no  *)
(* URL.                                                                    *)
StartDownload(c, b) ==
  LET r == [cell |-> c, use |-> use'[c], blog |-> b] IN
  \/ loading' = loading \cup {r} /\ UNCHANGED missed
  \/ missed' = missed \cup {r} /\ UNCHANGED loading

(* A row comes on screen and gets any cell that is free. *)
CellForRow(i, c) ==
  /\ i \in DOMAIN blogArray \ DOMAIN cellOf
  /\ c \notin Range(cellOf)
  /\ use[c] < MaxUses
  /\ cellOf' = [j \in DOMAIN cellOf \cup {i} |-> IF j = i THEN c ELSE cellOf[j]]
  /\ use' = [use EXCEPT ![c] = @ + 1]
  /\ label' = [label EXCEPT ![c] = blogArray[i]]
  /\ displaced' = displaced \ {c}
  /\ StartDownload(c, blogArray[i])
  /\ UNCHANGED <<blogArray, image>>

Own(r) == r.use = use[r.cell]
OwnIsDue(c) == \E r \in loading : r.cell = c /\ Own(r)

ImageDownloaded(r) ==
  /\ loading' = loading \ {r}
  /\ image' = [image EXCEPT ![r.cell] = r.blog]
  /\ displaced' = IF Own(r) \/ OwnIsDue(r.cell) THEN displaced ELSE displaced \cup {r.cell}
  /\ UNCHANGED <<blogArray, cellOf, use, label, missed>>

(* Faulty: a failure shows the nib's image again, whoever has the cell.    *)
DownloadFailedClears(r) ==
  /\ loading' = loading \ {r}
  /\ missed' = missed \cup {r}
  /\ image' = [image EXCEPT ![r.cell] = NoBlog]
  /\ UNCHANGED <<blogArray, cellOf, use, label, displaced>>

(* The closure prints the failure and leaves the image there is. *)
DownloadFailed(r) ==
  /\ loading' = loading \ {r}
  /\ missed' = missed \cup {r}
  /\ UNCHANGED <<blogArray, cellOf, use, label, image, displaced>>

(* Bytes that are no image: the forced unwrap ends the app, and the next   *)
(* process has a new table.                                                *)
ImageTraps ==
  /\ loading # {}
  /\ blogArray' = << >> /\ cellOf' = << >>
  /\ use' = [c \in Cells |-> 0]
  /\ label' = [c \in Cells |-> NoBlog] /\ image' = [c \in Cells |-> NoBlog]
  /\ loading' = {} /\ missed' = {} /\ displaced' = {}

Next ==
  \/ SearchBarSearchButtonClicked
  \/ \E b \in Blogs : Retrieved(b)
  \/ \E i \in DOMAIN cellOf : ScrolledAway(i)
  \/ \E i \in DOMAIN blogArray, c \in Cells : CellForRow(i, c)
  \/ \E r \in loading : ImageDownloaded(r) \/ DownloadFailed(r)
  \/ ImageTraps

Spec == Init /\ [][Next]_vars
-----------------------------------------------------------------------------
TypeOK ==
  /\ blogArray \in Seq(Blogs) /\ Len(blogArray) <= MaxRows
  /\ DOMAIN cellOf \subseteq 1 .. MaxRows /\ Range(cellOf) \subseteq Cells
  /\ IsInjective(cellOf)
  /\ use \in [Cells -> 0 .. MaxUses]
  /\ label \in [Cells -> Blogs \cup {NoBlog}]
  /\ image \in [Cells -> Blogs \cup {NoBlog}]
  /\ loading \subseteq Downloads /\ missed \subseteq Downloads
  /\ displaced \subseteq Cells

(* A row with the image of another blog, or none, waits for its own, or    *)
(* failed to get it, has no URL of one, or had it replaced by the late     *)
(* answer of a row that used the cell before (lines 33 to 41, 111 to 123). *)
(* Nothing else mixes up images: not the order in which rows come, a new   *)
(* search or a reload.                                                     *)
WrongImageIsExplained ==
  \A i \in DOMAIN cellOf :
    LET c == cellOf[i] IN
      \/ image[c] = label[c]
      \/ OwnIsDue(c)
      \/ c \in displaced
      \/ \E r \in missed : r.cell = c /\ Own(r)

(* A row loses the right image only to the download of an earlier use of   *)
(* its cell, never to that of a row beside it.                             *)
RightImageLostOnlyToReuse ==
  [][\A c \in Cells : (image[c] = label[c] /\ image'[c] # label'[c] /\ use'[c] = use[c]) =>
       \E r \in loading : r.cell = c /\ r.use < use[c] /\ r.blog = image'[c]]_vars
=============================================================================
