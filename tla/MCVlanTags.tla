---------------------------- MODULE MCVlanTags -----------------------------
\* Two containers of different labs and a virtual machine of the first one.
EXTENDS VlanTags
CONSTANTS port1, port2, vm1, s1, s2
MCLab == [x \in Ports |-> IF x = port2 THEN "lab2" ELSE "lab1"]
====
