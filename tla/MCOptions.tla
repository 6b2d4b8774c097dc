----------------------------- MODULE MCOptions ------------------------------
(* OptionRequests for TLC.  Values and targets lie on both sides of every   *)
(* check and of the width of a field, rates on both sides of every byte.    *)
EXTENDS OptionRequests

KnownDefault == [rate |-> None, bits |-> 24, channels |-> 2]

SomePairs == [key : Fields \cup {"other"},
              value : {NotANumber, 0, 4, 16, 17, 24, 272, U32Size - 1, U32Size}]
SomeTargets == [rate : {0, 8000}, bits : {0, 4, 16, 272}, channels : {0, 1}]
SomeFormats == [rate : {0, 127, 256, 44100, 192000, 2130706559}, channels : {0, 2, 255},
                bits : {16, 32}, float : BOOLEAN]
=============================================================================
