---------------------------- MODULE MCDownloads ----------------------------
(* Instances of Downloads. *)
EXTENDS Downloads

OneThreeOne == <<1, 3, 1>>
OneLevel == <<<<1>>>>
TwoLevels == <<<<1, 2>>, <<2, 3>>>>
=============================================================================
