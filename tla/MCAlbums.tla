------------------------------ MODULE MCAlbums ------------------------------
(* Albums on a small table with a few requests.                            *)
EXTENDS Albums

\* The first and the second page of one album each.
MCListQueries == [page : {1, 2}, perPage : {1}]

=============================================================================
