--------------------------- MODULE MCSegmentRun ---------------------------
(***************************************************************************)
(* SegmentRun on a source with two binlog files.                           *)
(***************************************************************************)
EXTENDS SegmentRun

OneEach == <<1, 1>>
TwoThenOne == <<2, 1>>

Conf(rotates, gtid, uploader, format) ==
  [rotates |-> rotates, gtid |-> gtid, uploader |-> uploader, format |-> format]

\* A GTID task that uploads, and a source that rotates its files.
GTIDUpload == {Conf({1}, TRUE, TRUE, 0)}

\* File/pos with an object store; and a source that ends a file without a
\* rotate event (it died), for a GTID and a file/pos task that keep local files.
OtherConfs == {Conf({1}, FALSE, TRUE, 0), Conf({}, TRUE, FALSE, 2), Conf({}, FALSE, FALSE, 2)}
=============================================================================
