------------------------------ MODULE MCPiaWire ------------------------------
(* A command with negative numbers, one with every kind of value, and reports
   of up to two entries at every depth the decoder tells apart. *)
EXTENDS PiaWire

Set(bus, sid, value) == [bus |-> bus, sid |-> sid, value |-> value]
Number(v) == Value("int", v, <<>>)
Flag(v) == Value("bool", v, <<>>)
Decimal(v) == Value("float", v, <<>>)
Text(s) == Value("str", 0, s)
MCCommands ==
    {<<Set(3, 1, Number(-1)), Set(3, 2, Number(-20)), Set(3, 3, Number(100)), Set(9, 30, Number(8))>>,
     <<Set(3, 1, Flag(0)), Set(9, 30, Number(7)), Set(3, 2, Text(<<>>)), Set(3, 3, Decimal(9)), Set(0, 9, Text(<<4, 5, 6>>)),
       Set(3, 4, Number(0)), Set(3, 5, Number(8)), Set(3, 6, Flag(1))>>}
MCCatalogs ==
    {<<Set(3, 1, Value("name", 0, <<6, 5, 4>>)), Set(9, 30, Value("name", 0, <<7>>)), Set(9, 2, Value("name", 0, <<7>>))>>}

Entry(bus, sid, values, field) == [bus |-> bus, sid |-> sid, values |-> values, intField |-> field]
MCEntries ==
    {Entry(1, 2, <<Number(9)>>, 3), Entry(1, 2, <<Number(0), Flag(1)>>, 3), Entry(1, 2, <<Flag(1), Number(0)>>, 7),
     Entry(4, 3, <<Text(<<4, 5, 6>>), Flag(1)>>, 3), Entry(4, 3, <<Decimal(15)>>, 3), Entry(4, 3, <<Decimal(9), Flag(0)>>, 3),
     Entry(0, 1, <<Number(15)>>, 3)}
MCReports ==
    {[entries |-> entries, wraps |-> wraps, known |-> known, carried |-> carried, status |-> status] :
        entries \in {es \in SUBSET MCEntries : Cardinality(es) \in 1..2 /\ \A e, f \in es : e.bus = f.bus => e = f},
        wraps \in 0..4, known \in {{}, {<<1, 2>>}}, carried \in BOOLEAN,
        status \in {1, Expired}}
MCNoises == {<<>>, <<10>>, <<3, 10>>}
=============================================================================
