---------------------------- MODULE MCTritonModel ----------------------------
(* Models of one and two inputs: served as they are, with a fixed first    *)
(* dimension, with types that are not known, and with too many inputs.     *)
EXTENDS TritonModel

Io(t, s) == [datatype |-> t, shape |-> s]
Fp32 == Io("FP32", <<-1, 2>>)
Fixed == Io("FP32", <<2, 2>>)
Short == Io("INT16", <<-1, 2>>)
Fp16 == Io("FP16", <<-1, 2>>)
Says(i, o) == [inputs |-> i, outputs |-> o]

MCModels == {
  Says(<<Fp32, Fp32>>, <<Fp32>>),
  Says(<<Fixed, Fixed>>, <<Fixed>>),
  Says(<<Short, Short>>, <<Short>>),
  Says(<<Fp32, Fp16>>, <<Fp32>>),
  Says(<<Fp16, Fp32>>, <<Fp32>>),
  Says(<<Fp32, Fp32>>, <<Fp16>>),
  Says(<<Fp32, Fp32, Fp32>>, <<Fp32>>),
  Says(<<Fp32, Fp32>>, <<Fp32, Fp32>>)}
=============================================================================
