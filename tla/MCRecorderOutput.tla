-------------------------- MODULE MCRecorderOutput --------------------------
(* RecorderOutput on a key frame and up to two more pictures. *)
EXTENDS RecorderOutput

Nal(long, type, payload) == (IF long THEN <<"0", "0", "0", "1">> ELSE <<"0", "0", "1">>)
                            \o <<type>> \o payload

Key == Nal(TRUE, "aud", <<"x">>) \o Nal(TRUE, "sps", <<"x">>) \o Nal(TRUE, "pps", <<"x">>)
       \o Nal(FALSE, "sei", <<"x">>) \o Nal(FALSE, "idr", <<"first", "x">>)
Inter == Nal(TRUE, "aud", <<"x">>) \o Nal(FALSE, "slice", <<"first">>)

MCStreams == {<<>>, <<Key>>, <<Key, Inter, Inter>>}
\* Regular, on one tick, going back, with a gap beyond the longest duration.
MCTimes == {<<0, 4, 8>>, <<5, 6, 7>>, <<6, 9, 3>>, <<1, 2, 30>>}
=============================================================================
