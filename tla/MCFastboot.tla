----------------------------- MODULE MCFastboot -----------------------------
(* Two partitions of three blocks and a handful of images.          *)
EXTENDS Fastboot

Raw(v) == <<<<"raw", 1, v>>, <<"raw", 2, v>>>>
FillValue(v) == <<<<"fill", 1, v>>, <<"fill", 2, v>>>>
Chunk(type, blocks, data) == [type |-> type, blocks |-> blocks, data |-> data]
Image(major, blks, chunks, n) ==
    [header |-> [major |-> major, total_blks |-> blks, total_chunks |-> n], chunks |-> chunks]

Good == {Image(1, 3, <<Chunk("FILL", 1, FillValue(2)), Chunk("DONT_CARE", 1, <<>>), Chunk("RAW", 1, Raw(1))>>, 3)}
Bad == {Image(1, 2, <<Chunk("DONT_CARE", 1, <<>>), Chunk("RAW", 1, Raw(1))>>, 1),
        Image(1, 1, <<Chunk("DONT_CARE", 1, <<>>), Chunk("CRC", 0, Raw(9))>>, 2)}

MCSparse == [s \in {Stream(i) : i \in Good} |-> (CHOOSE i \in Good : Stream(i) = s).chunks]
MCImages == {Stream(i) : i \in Good \cup Bad}
                \cup {Raw(3), [k \in 1 .. 13 |-> <<"raw", k, 6>>]}

MCTable == [boot |-> [a |-> "boot_a", b |-> "boot_b", none |-> FALSE],
            userdata |-> [a |-> "userdata", b |-> "NULL", none |-> FALSE]]
MCPrivate == {"mb1"}
MCPartitions == [boot |-> 6, boot_b |-> 6]
MCNames == {[base |-> b, suffix |-> x] : b \in {"boot"}, x \in {"", "_b"}}
              \cup {[base |-> "userdata", suffix |-> "_b"]}
              \cup {[base |-> b, suffix |-> ""] : b \in {"mb1", "bootloader"}}
=============================================================================
