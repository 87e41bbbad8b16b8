------------------------------ MODULE MCPager ------------------------------
(* Free list pages of one item, where the code has 1024.  With entries of size  *)
(* two, flushFreeList counts them as if they held two (in the code, 4096), and  *)
(* the third free id starts a second page; with size one the count is right.    *)
EXTENDS Pager
=============================================================================
