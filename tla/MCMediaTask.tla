----------------------------- MODULE MCMediaTask -----------------------------
(* A parameter set and a key frame, cut into two PES packets and several RTP *)
(* packets; a small frame that fits one of each; and one whose continuation  *)
(* packet starts with 01 and a video id.                                     *)
EXTENDS MediaTask

MCContent ==
    {[key |-> TRUE,  nalus |-> <<<<103, 1>>, <<101, 0, 3, 224, 1, 128>>>>],
     [key |-> FALSE, nalus |-> <<<<65, 154>>>>],
     [key |-> FALSE, nalus |-> <<<<65, 7, 7, 7, 1, 224, 9, 9, 9, 0, 9, 9>>>>]}

(* The hypothesis of the theorems about what the parser gives back.          *)
ASSUME ContentWellFormed ==
    \A c \in Content : \A i \in 1 .. Len(c.nalus) : NalWellFormed(c.nalus[i])
===============================================================================
