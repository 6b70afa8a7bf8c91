---------------------------- MODULE MCProductCatalog ----------------------------
(***************************************************************************)
(* Instances of ProductCatalog for TLC.                                    *)
(***************************************************************************)
EXTENDS ProductCatalog

CONSTANTS s1, s2

\* A PATCH of one column or of the other.
OneColumnEach ==
    [sku : {s1, s2}, stock : {Absent}] \cup [sku : {Absent}, stock : Stocks]

=============================================================================
