----------------------------- MODULE MCHostVideo -----------------------------
(* An instance of HostVideo for TLC: headers with long and short start codes, *)
(* bodies of one byte and with the bytes of a start code.                     *)
EXTENDS HostVideo

Short(body) == <<0, 0, 1>> \o body
Long(body) == <<0, 0, 0, 1>> \o body

OpeningsUsed ==
    {<<Long(<<2, 0, 1>>), Long(<<2>>), Short(<<2>>)>>,
     <<Short(<<2>>), Short(<<2, 0, 0, 3, 1>>), Long(<<2>>)>>,
     <<Long(<<2>>), Short(<<1>>), Short(<<2>>), Short(<<2>>)>>}
LaterUsed == {Short(<<2>>)}
================================================================================
