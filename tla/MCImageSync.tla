---------------------------- MODULE MCImageSync ----------------------------
\* One node whose device names one image: placed with the file gone, pinned with
\* the file there, and unplaced with the file there.
EXTENDS ImageSync, TLC
CONSTANTS img1, node1, job1, job2
MCImageOf == (node1 :> img1)
Setting(file, place, pin) == [files |-> file, placed |-> place, pinned |-> pin]
MCSettings == {Setting({}, {node1}, {}), Setting({img1}, {node1}, {node1}), Setting({img1}, {}, {})}
====
