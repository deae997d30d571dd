---------------------------- MODULE ServicePaging ----------------------------
(***************************************************************************)
(* Listing the retained history and the catalogue page by page             *)
(* (src/application/service.rs, crates/kapsel-daemon/src/server.rs).       *)
(*                                                                         *)
(* A caller passes the next_cursor of each page as "after" of the next     *)
(* request.  Between two pages other callers admit operations of either    *)
(* effect, and the service may be stopped and started again with another   *)
(* catalogue.  Identities are numbered in the order of their bytes.        *)
(***************************************************************************)
EXTENDS Integers, FiniteSetsExt, SequencesExt

CONSTANTS
    Identities,     \* operation identities, as numbers
    PageSize,       \* entries of a page (8 in the code)
    Catalogues,     \* catalogues an operator may install: sequences of identities
    None

ASSUME PagingAssumption ==
    /\ Identities \subseteq Nat \ {0} /\ IsFiniteSet(Identities)
    /\ PageSize \in Nat \ {0}
    /\ Catalogues \subseteq Seq(Identities) /\ \A c \in Catalogues : IsInjective(c)
    /\ None \notin Nat \cup {"history", "catalogue"}

VARIABLES
    kubernetes,     \* identities in kubernetes_image_operations
    git,            \* identities in git_ref_operations
    catalogue,      \* the catalogue of the running daemon
    listing,        \* which listing the caller reads: None, history or catalogue
    cursor,         \* its "after"
    entries,        \* the entries it has received
    started,        \* history: what was there when the listing began
    replaced        \* history: the catalogue changed during the listing

vars == <<kubernetes, git, catalogue, listing, cursor, entries, started, replaced>>

Retained == kubernetes \cup git

Ascending(S) ==
    [n \in 1 .. Cardinality(S) |-> CHOOSE i \in S : Cardinality({j \in S : j <= i}) = n]

\* Journal::history_ids: both tables in one order, one identity more than a page.
HistoryIds(after) ==
    LET ids == Ascending({i \in Retained : i > after})
    IN  SubSeq(ids, 1, Min({Len(ids), PageSize + 1}))

\* Mutant of History: the cursor is the identity that did not fit.
HistoryFromNinth(after) ==
    LET ids == HistoryIds(after)
        page == SubSeq(ids, 1, Min({Len(ids), PageSize}))
    IN  [page |-> page, next |-> IF Len(ids) > PageSize THEN Last(ids) ELSE None]

\* ServiceApplication::history.  The cursor is the last entry of a page that is not
\* the last one.
History(after) ==
    LET ids == HistoryIds(after)
        page == SubSeq(ids, 1, Min({Len(ids), PageSize}))
    IN  [page |-> page, next |-> IF Len(ids) > PageSize THEN Last(page) ELSE None]

\* approved_actions: the entries behind the cursor's position.
ApprovedActions(after) ==
    LET start == IF after = 0 THEN 0
                 ELSE CHOOSE p \in DOMAIN catalogue : catalogue[p] = after
    IN  SubSeq(catalogue, start + 1, Min({Len(catalogue), start + PageSize}))

\* read_observed: the cursor is kept if another page would have entries.
List(after) ==
    LET page == ApprovedActions(after)
    IN  [page |-> page,
         next |-> IF page = <<>> \/ ApprovedActions(Last(page)) = <<>>
                  THEN None ELSE Last(page)]

-----------------------------------------------------------------------------
Begin(kind) ==
    /\ listing = None
    /\ listing' = kind /\ cursor' = 0 /\ entries' = <<>>
    /\ started' = IF kind = "history" THEN Retained ELSE ToSet(catalogue)
    /\ replaced' = FALSE
    /\ UNCHANGED <<kubernetes, git, catalogue>>

Forget ==
    /\ listing' = None /\ cursor' = None /\ entries' = <<>>
    /\ started' = {} /\ replaced' = FALSE

Receive(answer) ==
    /\ entries' = entries \o answer.page
    /\ cursor' = answer.next
    /\ UNCHANGED <<kubernetes, git, catalogue, listing, started, replaced>>

ReadHistory ==
    /\ listing = "history" /\ cursor # None
    /\ Receive(History(cursor))

\* A cursor that is not in the catalogue is refused, and the listing is given up.
ReadCatalogue ==
    /\ listing = "catalogue" /\ cursor # None
    /\ IF cursor = 0 \/ Contains(catalogue, cursor)
       THEN Receive(List(cursor))
       ELSE Forget /\ UNCHANGED <<kubernetes, git, catalogue>>

End ==
    /\ listing # None /\ cursor = None
    /\ Forget
    /\ UNCHANGED <<kubernetes, git, catalogue>>

\* Another caller's admission; an identity is admitted to one table only.
Admit(i) ==
    /\ i \notin Retained
    /\ \/ kubernetes' = kubernetes \cup {i} /\ git' = git
       \/ git' = git \cup {i} /\ kubernetes' = kubernetes
    /\ UNCHANGED <<catalogue, listing, cursor, entries, started, replaced>>

\* The service is started again with another catalogue.
Restart(c) ==
    /\ c # catalogue
    /\ catalogue' = c
    /\ replaced' = (listing # None)
    /\ UNCHANGED <<kubernetes, git, listing, cursor, entries, started>>

Init ==
    /\ kubernetes = {} /\ git = {}
    /\ catalogue \in Catalogues
    /\ listing = None /\ cursor = None /\ entries = <<>>
    /\ started = {} /\ replaced = FALSE

Next ==
    \/ \E kind \in {"history", "catalogue"} : Begin(kind)
    \/ ReadHistory \/ ReadCatalogue \/ End
    \/ \E i \in Identities : Admit(i)
    \/ \E c \in Catalogues : Restart(c)

Spec == Init /\ [][Next]_vars

-----------------------------------------------------------------------------
(* Properties.                                                             *)

\* A history listing never repeats an identity nor goes back and names only retained
\* operations, whatever is admitted between its pages; once it has ended it names
\* every operation that was retained when it began (history, history_ids).
HistoryIsComplete ==
    listing = "history" =>
       /\ \A m, n \in DOMAIN entries : m < n => entries[m] < entries[n]
       /\ ToSet(entries) \subseteq Retained
       /\ cursor = None => started \subseteq ToSet(entries)

\* A catalogue listing that ends without the catalogue having been replaced is the
\* catalogue, in the operator's order (approved_actions, read_observed).
CatalogueIsComplete ==
    listing = "catalogue" /\ cursor = None /\ ~replaced => entries = catalogue

\* Neither listing misses, repeats or invents an entry.
ListingsAreComplete == HistoryIsComplete /\ CatalogueIsComplete
=============================================================================
