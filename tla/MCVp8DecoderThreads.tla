------------------------ MODULE MCVp8DecoderThreads ------------------------
(***************************************************************************)
(* Small instances of Vp8DecoderThreads.                                   *)
(***************************************************************************)
EXTENDS Vp8DecoderThreads

\* Frames of two sizes, one with fewer rows than there may be threads, and with
\* one, two or more token partitions.
Shapes == [rows : {2, MaxRows}, parts : {1, 2, 4, 8}]

\* A key frame may change the size.
TwoSizes == [rows : {2, 3}, parts : {2}]

\* The number of partitions may change from frame to frame.
TwoPartitionings == [rows : {MaxRows}, parts : {2, 4}]
=============================================================================
