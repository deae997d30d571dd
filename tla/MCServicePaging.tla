--------------------------- MODULE MCServicePaging ---------------------------
(***************************************************************************)
(* An instance of ServicePaging for TLC: pages of two, and catalogues of   *)
(* no entry, one page, one page and one entry, and two pages.              *)
(***************************************************************************)
EXTENDS ServicePaging

MCCatalogues == {<<>>, <<3, 1>>, <<2, 4, 1>>, <<5, 3, 1, 2>>}
=============================================================================
