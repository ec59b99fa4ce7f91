----------------------------- MODULE MCCloneWire ------------------------------
(* Instances of CloneWire: texts at the limit and one above it, lists at the  *)
(* limit of files, of bytes, and of bytes but for the count of the list.      *)
EXTENDS CloneWire

Small == Entry(<<3>>, <<0>>, <<2>>, -2)
Plain == Entry(<<0, 0>>, << >>, << >>, 5)
Large == Entry(<<0, 1, 0>>, <<0>>, <<1>>, 0)
LongName == Entry(<< >>, << >>, <<0, 2>>, 1)

SomeObjects ==
    {[brand |-> "Blob", entries |-> <<Entry(bytes, <<0>>, << >>, 0)>>] :
        bytes \in {<< >>, <<3>>, <<0, 1, 0, 1>>}}
    \cup {[brand |-> "File", entries |-> <<e>>] : e \in {Small, Large, LongName}}
    \cup {[brand |-> "FileList", entries |-> l] :
        l \in {<< >>, <<Small, Plain>>, <<Small, Large>>, <<Large, Large>>}}

SomePayloads ==
    {Payload("Blob", <<Entry(<<1>>, type, << >>, 0)>>) : type \in {<<1>>, <<2>>, <<0, 0>>}}
    \cup {Payload("File", <<e>>) : e \in {LongName, Plain}}
    \cup {Payload("FileList", <<Plain, Plain, Plain>>)}
=============================================================================
