------------------------------- MODULE MCEc2b -------------------------------
(* Ec2b on small instances: words of one bit, data of two words, and every *)
(* command line of up to three groups.                                     *)
EXTENDS Ec2b

CONSTANT Words

MCArg == {"-h", "-k", "-d", "-s", "-S", "-o", "-i", "-g", "0", "1", "a", "b"}
MCNumbers == [w \in {"0", "1"} |-> IF w = "0" THEN {} ELSE Words]

Groups == {<<"-h">>, <<"-k">>, <<"-d">>, <<"-s">>, <<"-g">>, <<"-S">>, <<"-o">>,
           <<"-i">>, <<"a">>, <<"b">>, <<"-S", "0">>, <<"-S", "1">>,
           <<"-o", "a">>, <<"-o", "b">>, <<"-i", "a">>}

MCArgvs == {a \o b \o c : a, b, c \in Groups \cup {<<>>}}

\* a is an .ec2b file or is not, b exists or does not, nothing else does.
MCFiles ==
  {[f \in MCArg |-> CASE f = "a" -> a [] f = "b" -> b [] OTHER -> NoFile] :
     a \in {Ec2bFile(<<{}, Words>>, [k \in 1 .. 2 |-> {}]),
            Ec2bFile(<<Words, {}>>, [k \in 1 .. 2 |-> IF k = 1 THEN Words ELSE {}]),
            Other},
     b \in {NoFile, Other}}

MCTransform == [k \in Key |-> <<k[2], Not(k[1] ^^ k[2])>>]
=============================================================================
