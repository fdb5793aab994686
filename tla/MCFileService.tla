---------------------------- MODULE MCFileService ----------------------------
EXTENDS FileService, TLC

CONSTANTS c1, c2, dirA, dirB, leaf, t1, t2

MCNames == {dirA, dirB}
MCLeaves == {leaf}
MCTemps == {t1, t2}
MCCalls == {c1, c2}
MCSizes == c1 :> {2} @@ c2 :> {1, 3}
MCNamed == {<<dirA>>, <<dirA, leaf>>, <<dirA, t1>>}
MCRenames == {<<<<dirA>>, <<dirB>>>>, <<<<dirA, t1>>, <<dirA, leaf>>>>, <<<<dirA, leaf>>, <<dirA, t1>>>>}
MCTargets == {<<dirA, leaf>>}
MCDownloads == c1 :> {Outside} @@ c2 :> {<<dirA, leaf>>}
MCCopies == c1 :> {} @@ c2 :> {<<<<dirA, t1>>, <<dirA, leaf>>>>}
=============================================================================
