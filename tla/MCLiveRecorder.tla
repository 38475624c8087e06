---------------------------- MODULE MCLiveRecorder ----------------------------
(* Small instances of LiveRecorder for TLC: the recordings that are made. *)
EXTENDS LiveRecorder

\* What the origin serves to the recorder.
Plain == [window |-> 2, parts |-> "none", ranged |-> FALSE, map |-> FALSE, delta |-> FALSE, lag |-> 0,
          gaps |-> {}, breaks |-> {}, locked |-> {}, period |-> 9, protect |-> 99,
          nesting |-> 0, direct |-> FALSE, start |-> 2]

\* Whole segments: a window that slides, a discontinuity, a gap, a key.
Sliding == [origin |-> <<[Plain EXCEPT !.gaps = {3}, !.breaks = {2}, !.locked = {5}]>>, dash |-> FALSE,
            length |-> 10, segments |-> 4, polls |-> 4, bytes |-> 6, failures |-> 1]
\* Every segment a byte range of one growing file, PARTs as implicit ranges.
Ranged == [origin |-> <<[Plain EXCEPT !.ranged = TRUE, !.parts = "ranges", !.start = 1, !.breaks = {2}]>>,
           dash |-> FALSE, length |-> 8, segments |-> 6, polls |-> 4, bytes |-> 9, failures |-> 0]
\* What a master playlist leads to: a live video playlist, an audio playlist
\* that lags behind and signals DRM later, subtitles as one object.
Master == [origin |-> <<[Plain EXCEPT !.nesting = 1, !.gaps = {2}, !.locked = {3}],
                        [Plain EXCEPT !.ranged = TRUE, !.lag = 2, !.start = 1, !.protect = 3],
                        [Plain EXCEPT !.direct = TRUE]>>,
           dash |-> FALSE, length |-> 6, segments |-> 4, polls |-> 2, bytes |-> 7, failures |-> 1]
\* DASH: two kinds in one Period, the first protected later.
Dynamic == [origin |-> [i \in 1 .. 2 |-> [Plain EXCEPT !.protect = IF i = 1 THEN 5 ELSE 99]],
            dash |-> TRUE, length |-> 6, segments |-> 4, polls |-> 3, bytes |-> 9, failures |-> 0]
\* PARTs with a file each, and segments that are complete at the next poll.
Low == [origin |-> <<[Plain EXCEPT !.parts = "files", !.start = 1, !.window = 9]>>, dash |-> FALSE,
        length |-> 4, segments |-> 6, polls |-> 2, bytes |-> 9, failures |-> 0]

FiveRecordings == {Sliding, Ranged, Master, Dynamic, Low}

\* The hypotheses of the theorems of LiveRecorder_proofs, which TLC evaluates.
ASSUME RecordingsAreMarked == MarkedPlaylists
ASSUME RecordingsAreOrdered == Orderly
\* Those that AdvertisedIsRecorded says something of.
ASSUME SomeAreUnabridged == \A r \in {Sliding, Ranged, Dynamic} : Unabridged(r)
=============================================================================
