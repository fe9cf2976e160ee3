---------------------------- MODULE SimpleHandler -----------------------------
(***************************************************************************)
(* SimpleHandler (simple_handler.go) over a memory of up to four tables.   *)
(* A memory is a record whose fields are the tables the application gave   *)
(* functions for; a missing field is the nil function of the code.  A      *)
(* table is a sequence of values, the one of address a at index a + 1.     *)
(***************************************************************************)
EXTENDS Data

\* The types of the application's functions: []bool and []uint16.
Tables == {"discreteInputs", "coils", "inputRegisters", "holdingRegisters"}
ValueType(t) == IF t \in {"discreteInputs", "coils"} THEN Bits ELSE Uint16

IsMemory(m) ==
    /\ m = [t \in DOMAIN m |-> m[t]] /\ DOMAIN m \subseteq Tables
    /\ \A t \in DOMAIN m : m[t] \in Seq(ValueType(t))

TableOf(fc) ==
    CASE fc = FcReadDiscreteInputs -> "discreteInputs"
      [] fc \in {FcReadCoils, FcWriteSingleCoil, FcWriteMultipleCoils} -> "coils"
      [] fc = FcReadInputRegisters -> "inputRegisters"
      [] fc \in {FcReadHoldingRegisters, FcWriteSingleRegister,
                 FcWriteMultipleRegisters} -> "holdingRegisters"
      [] OTHER -> "none"

Supports(mem, fc) == TableOf(fc) \in DOMAIN mem

\* The application is the model's own, one that has fewer values than there are
\* addresses: its read function returns what the table has in the range.
ReadValues(table, address, quantity) ==
    SubSeq(table, address + 1,
           IF address + quantity < Len(table) THEN address + quantity
           ELSE Len(table))

\* The application's write function refuses a range the table does not have.
WriteValues(table, address, values) ==
    IF address + Len(values) > Len(table)
    THEN [table |-> table, err |-> EcIllegalDataAddress]
    ELSE [table |-> [i \in 1..Len(table) |->
                       IF i - address \in 1..Len(values)
                       THEN values[i - address] ELSE table[i]],
          err |-> NoErr]

checkValues(values, count) ==
    IF Len(values) < count
    THEN [values |-> << >>, err |-> EcServerDeviceFailure]
    ELSE [values |-> SubSeq(values, 1, count), err |-> NoErr]

OnRead(mem, req) ==
    LET fc == GetFunctionCode(req)
        n == GetRequestCount(req)
        Fail(e) == [data |-> << >>, err |-> e]
    IN  IF n.err # NoErr THEN Fail(n.err)
        ELSE IF ~Supports(mem, fc) THEN Fail(ErrFcNotSupported)
        ELSE LET v == checkValues(
                        ReadValues(mem[TableOf(fc)], GetAddress(req), n.count),
                        n.count)
             IN  IF v.err # NoErr THEN Fail(v.err)
                 ELSE IF IsBool(fc) THEN BoolsToData(v.values, fc)
                 ELSE RegistersToData(v.values)

OnWrite(mem, req, data) ==
    LET fc == GetFunctionCode(req)
        n == GetRequestCount(req)
        Fail(e) == [mem |-> mem, err |-> e]
    IN  IF n.err # NoErr THEN Fail(n.err)
        ELSE IF ~Supports(mem, fc) THEN Fail(ErrFcNotSupported)
        ELSE LET v == IF IsBool(fc) THEN DataToBools(data, n.count, fc)
                      ELSE DataToRegisters(data)
             IN  IF v.err # NoErr THEN Fail(v.err)
                 ELSE LET w == WriteValues(mem[TableOf(fc)], GetAddress(req), v.values)
                      IN  [mem |-> [mem EXCEPT ![TableOf(fc)] = w.table],
                           err |-> w.err]
===============================================================================
