---------------------------- MODULE MCDiskWipe ----------------------------
(* Two disks with a tail, a partition of one of them, and a device that is   *)
(* refused; one command line per schedule and mode.                          *)
EXTENDS DiskWipe

Dev(parent, size, sector, blk) ==
  [disk |-> parent, size |-> size, sector |-> sector, blk |-> blk]

MCDevices ==
  [d  |-> Dev("d", 7, 1, TRUE),  d1 |-> Dev("d", 4, 1, TRUE),
   e  |-> Dev("e", 5, 2, TRUE),  x  |-> Dev("x", 4, 4, TRUE),
   t  |-> Dev("t", 1, 1, TRUE),  f  |-> Dev("f", 4, 1, FALSE)]

Wipe(disks, seed, sel, k) ==
  [NoCfg EXCEPT !.disks = disks, !.seed = seed, !.gpus = sel, !.k = k,
                !.confirm = TRUE, !.stage = 3]

MCConfigs ==
  { \* both GPUs on each of two disks, windows of two super-chunks, then a check
    [Wipe(<<"e", "d">>, 1, <<0, 1>>, 0) EXCEPT !.mode = "gpus-per-disk",
                                               !.window = 4, !.verify_n = 2],
    \* a disk per GPU, without the dashboard
    [Wipe(<<"d", "e">>, 2, <<1, 0>>, 1) EXCEPT !.verbose = TRUE],
    \* more GPUs than super-chunks; a range shorter than the others
    [Wipe(<<"e">>, 1, <<>>, 9) EXCEPT !.window = 2],
    \* capped, with an idle GPU
    [Wipe(<<"d">>, 2, <<2, 0, 1>>, 2) EXCEPT !.cap = 5, !.window = 2, !.verify_n = 1],
    \* overlapping and unusable targets, a rehearsal, no --confirm
    Wipe(<<"d", "d">>, 1, <<0>>, 0), Wipe(<<"e", "d1", "d">>, 1, <<0>>, 0),
    Wipe(<<"x">>, 1, <<0>>, 0), Wipe(<<"t">>, 1, <<0>>, 0),
    Wipe(<<"f">>, 1, <<0>>, 0), Wipe(<<>>, 1, <<0>>, 0),
    [Wipe(<<"d">>, 1, <<0>>, 0) EXCEPT !.dry = TRUE, !.verify_n = 1],
    [Wipe(<<"d">>, 1, <<0>>, 0) EXCEPT !.confirm = FALSE],
    \* --verify-only
    [Wipe(<<"d", "e">>, 1, <<0>>, 0) EXCEPT !.only = TRUE],
    [Wipe(<<"d">>, 2, <<0>>, 0) EXCEPT !.only = TRUE, !.verify_n = 2] }

\* Smaller disks for the run that also loses power: all mixtures of old, new and
\* lost units on a disk with a write cache occur.
MCSmallDevices == [d |-> Dev("d", 5, 1, TRUE), e |-> Dev("e", 3, 1, TRUE)]

\* Wipes that may be killed or fail, repeated with another seed, then verified;
\* the first asks for a window smaller than a super-chunk.
MCRestartConfigs ==
  { [Wipe(<<"d">>, 1, <<0, 1>>, 2) EXCEPT !.window = 1],
    [Wipe(<<"d", "e">>, 2, <<0>>, 1) EXCEPT !.stage = 2, !.verify_n = 2],
    [Wipe(<<"d", "e">>, 1, <<0>>, 0) EXCEPT !.only = TRUE],
    [Wipe(<<"d">>, 2, <<0>>, 0) EXCEPT !.only = TRUE, !.verify_n = 2] }
============================================================================
