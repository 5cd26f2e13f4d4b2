----------------------------- MODULE MCHunkMemory -----------------------------
(* A region of three pages of eight units, with a permanent part at either *)
(* end or none, and reservations of two pages.                             *)
EXTENDS HunkMemory

MCLowMarks == {0, 5}
MCHighMarks == {0, 2}
MCSizes == {1, 5}
MCUserSizes == {0, 6, 9}
MCUserAligns == {1, 2}
=============================================================================
