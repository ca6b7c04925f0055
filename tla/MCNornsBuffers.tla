--------------------------- MODULE MCNornsBuffers ---------------------------
(* The samples and the calls of the instance that TLC checks.  Samples: full *)
(* scale, beyond it, and between two steps of a code, on either side of      *)
(* zero.  Calls: seconds past the end of the buffer and of the file, a       *)
(* negative start_dst, the whole of what there is (dur < 0), and a channel   *)
(* that the file does not have.                                              *)
EXTENDS NornsBuffers, TLC

MCContent == <<<<16, -16, 10, 5>>, <<-1, 20, 13, -11>>>>
MCWav == <<<<3, -4>>, <<1, 0>>, <<-2, 2>>>>

Plain == [ch_src |-> 1, ch_dst |-> 1, start_src |-> 0, start_dst |-> 0, dur |-> -1,
          preserve |-> 0, fade |-> 0, reverse |-> FALSE, stereo |-> FALSE]
With(op, s) == {x @@ [op |-> op] @@ Plain : x \in s}
MCCalls ==
  With("read", [start_src : {0, 1}, start_dst : {-1, 0, 3}, dur : {-1, 1}, ch_src : {2}, ch_dst : {1, 2},
                preserve : {0, 1}] \union
               [start_src : {0}, start_dst : {0, 3}, dur : {-1, 5}, stereo : {TRUE}])
  \union
  With("write", [start_src : {0, 1, 5}, dur : {-1, 2}, ch_dst : {2}] \union
                [start_src : {0, 2}, dur : {-1, 1}, stereo : {TRUE}])
  \union
  With("clear", [start_dst : {0, 1, 5}, dur : {-1, 2}, fade : {0, 1}, stereo : {TRUE}] \union
                [start_dst : {-1}, dur : {2}, ch_dst : {2}, preserve : {0, 1}])
  \union
  With("copy", [ch_src : {1}, ch_dst : {1, 2}, start_src : {0, 1}, start_dst : {0, 1}, dur : {-1, 3},
                fade : {0, 1}, reverse : BOOLEAN] \union
               [start_dst : {-1, 2}, dur : {2}, preserve : {0, 1}, stereo : {TRUE}])
=============================================================================
