------------------------------ MODULE FeatureMaps ------------------------------
(* Feature maps (orch-core/compile.rs): which bytes of the guest a feature reads,  *)
(* how they are packed for the scorer, and how the top rung of the escalation      *)
(* ladder coarsens a map.  A map is                                                *)
(*   [schema, version, name, regions : Seq([name, size]), features : Seq(Feature)] *)
(* with Feature == [name, region, offset, type, width, stable, semantics, disc].   *)
(* Every CompileError ends bring-up in the same way, so an operator that may fail  *)
(* is a predicate (does it succeed?) next to a value.                              *)
EXTENDS Integers, Sequences, FiniteSets, SequencesExt

CONSTANTS
    MaxU32, MaxU64,   \* widths of lengths and of offsets and sizes, scaled down
    BadNames          \* names that validate_name rejects

ASSUME MapAssumption == MaxU32 \in Nat \ {0} /\ MaxU64 \in Nat /\ MaxU64 >= MaxU32

NoWidth == -1

\* FeatureValueType: the width a type implies.
DerivedWidth(type) ==
    CASE type \in {"u8", "i8", "bitflags8", "bcd8"} -> 1
      [] type \in {"u16le", "u16be", "i16le", "i16be", "bitflags16le", "bcd16le"} -> 2
      [] type \in {"u32le", "u32be", "i32le", "i32be", "bitflags32le"} -> 4
      [] type = "bytes" -> NoWidth
IsIntegerScalar(type) ==
    type \in {"u8", "i8", "u16le", "u16be", "i16le", "i16be", "u32le", "u32be", "i32le", "i32be"}
IsBitflags(type) == type \in {"bitflags8", "bitflags16le", "bitflags32le"}

\* Feature::width: a declared width must agree with the type's, and bytes need one.
WidthOk(f) ==
    IF DerivedWidth(f.type) = NoWidth THEN f.width \notin {NoWidth, 0}
    ELSE f.width \in {NoWidth, DerivedWidth(f.type)}
Width(f) == IF DerivedWidth(f.type) = NoWidth THEN f.width ELSE DerivedWidth(f.type)
End(f) == f.offset + Width(f)
-----------------------------------------------------------------------------
(* Validation.                                                               *)

Distinct(named) == \A i, j \in DOMAIN named : named[i].name = named[j].name => i = j

RegionsOk(map, layouts) ==
    /\ Distinct(map.regions)
    /\ \A i \in DOMAIN map.regions : LET r == map.regions[i] IN
          /\ r.name \notin BadNames
          /\ r.name \in DOMAIN layouts /\ r.size <= layouts[r.name].size

BoundsOk(map, f) ==
    /\ WidthOk(f) /\ End(f) <= MaxU64
    /\ \E i \in DOMAIN map.regions : map.regions[i].name = f.region /\ End(f) <= map.regions[i].size

\* A grid reads coordinates that are integers and not binned a second time, and a stable room.
GridTargetOk(map, f, target, coordinate) ==
    \E i \in DOMAIN map.features : LET t == map.features[i] IN
        /\ t.name = target
        /\ coordinate => /\ IsIntegerScalar(t.type)
                         /\ t.name = f.name \/ t.disc.kind = "none"
        /\ ~coordinate => t.stable

DiscretizeOk(map, f) ==
    /\ IsBitflags(f.type) => f.disc.kind \in {"bits", "none"}
    /\ f.disc.kind = "bucket" => f.disc.size # 0
    /\ f.disc.kind = "grid" =>
          /\ f.disc.cellW # 0 /\ f.disc.cellH # 0
          /\ GridTargetOk(map, f, f.disc.x, TRUE) /\ GridTargetOk(map, f, f.disc.y, TRUE)
          /\ GridTargetOk(map, f, f.disc.room, FALSE)

\* validate_feature_map.
ValidMap(map, layouts) ==
    /\ map.schema = 1 /\ map.name \notin BadNames
    /\ RegionsOk(map, layouts)
    /\ Distinct(map.features)
    /\ \A i \in DOMAIN map.features :
          /\ map.features[i].name \notin BadNames
          /\ BoundsOk(map, map.features[i]) /\ DiscretizeOk(map, map.features[i])
-----------------------------------------------------------------------------
(* Compilation.                                                              *)

\* The bytes the features of a region read, by start.
Intervals(map, region) ==
    LET own == SelectSeq(map.features, LAMBDA f : f.region = region)
    IN  SortSeq([i \in DOMAIN own |-> [start |-> own[i].offset, end |-> End(own[i])]],
                LAMBDA a, b : a.start < b.start)

\* Intervals that overlap or touch become one.
Merge(merged, next) ==
    IF merged # <<>> /\ next.start <= Last(merged).end
    THEN [merged EXCEPT ![Len(merged)].end = IF next.end > @ THEN next.end ELSE @]
    ELSE Append(merged, next)

RangesOf(map, layouts, region) ==
    LET merged == FoldLeft(Merge, <<>>, Intervals(map, region))
    IN  [i \in DOMAIN merged |->
            [region |-> region, layout |-> layouts[region].version,
             offset |-> merged[i].start, len |-> merged[i].end - merged[i].start]]

\* CompiledLayout: the ranges to extract, region by region.
Layout(map, layouts) ==
    FoldLeft(LAMBDA ranges, r : ranges \o RangesOf(map, layouts, r.name), <<>>, map.regions)

TotalLen(ranges) == FoldLeft(LAMBDA total, r : total + r.len, 0, ranges)

Covers(range, f) ==
    range.region = f.region /\ range.offset <= f.offset /\ End(f) <= range.offset + range.len

\* An offset into the range instead of into all packed bytes.
CompileFieldInRange(f, ranges) ==
    LET i == SelectInSeq(ranges, LAMBDA range : Covers(range, f))
    IN  [name |-> f.name, region |-> f.region, source |-> f.offset, width |-> Width(f),
         packed |-> f.offset - ranges[i].offset, semantics |-> f.semantics, disc |-> f.disc]

\* compile_field: a field lies in the first range that covers it.
CompileField(f, ranges) ==
    LET i == SelectInSeq(ranges, LAMBDA range : Covers(range, f))
    IN  [name |-> f.name, region |-> f.region, source |-> f.offset, width |-> Width(f),
         packed |-> TotalLen(SubSeq(ranges, 1, i - 1)) + f.offset - ranges[i].offset,
         semantics |-> f.semantics, disc |-> f.disc]

\* compile_feature_map: does it succeed, and what it yields.
Compiles(map, layouts) == ValidMap(map, layouts) /\ TotalLen(Layout(map, layouts)) <= MaxU32
Compile(map, layouts) ==
    LET ranges == Layout(map, layouts)
    IN  [version |-> map.version, layout |-> ranges, total |-> TotalLen(ranges),
         fields |-> [i \in DOMAIN map.features |-> CompileField(map.features[i], ranges)]]

\* materialize_decoded_features: the names the configuration asks for, or else every field that says
\* where the player is.
DecodedOk(wanted, compiled) ==
    \A i \in DOMAIN wanted : \E j \in DOMAIN compiled.fields : compiled.fields[j].name = wanted[i]
MaterializeDecoded(wanted, compiled) ==
    LET fields == compiled.fields
        grids == {fields[i].disc : i \in {j \in DOMAIN fields : fields[j].disc.kind = "grid"}}
        named == UNION {{g.x, g.y, g.room} : g \in grids}
        Positional(f) == f.semantics \in {"position_x", "position_y", "room_id"} \/ f.name \in named
        chosen == SelectSeq(fields, Positional)
    IN  IF wanted # <<>> THEN wanted ELSE [i \in DOMAIN chosen |-> chosen[i].name]
-----------------------------------------------------------------------------
(* Coarsening.                                                               *)

\* scale_positive: the factor is num / den, rounded up, and at least one.
ScalePositive(value, factor) ==
    LET scaled == (value * factor.num + factor.den - 1) \div factor.den
    IN  IF scaled < 1 THEN 1 ELSE scaled

CoarsenFeature(f, factor) ==
    CASE f.disc.kind = "bucket" -> [f EXCEPT !.disc.size = ScalePositive(@, factor)]
      [] f.disc.kind = "grid"   -> [f EXCEPT !.disc.cellW = ScalePositive(@, factor),
                                             !.disc.cellH = ScalePositive(@, factor)]
      [] OTHER                  -> f

\* coarsen_l4.
CoarsenL4(map, factor) ==
    [map EXCEPT !.version = @ + 1,
                !.features = [i \in DOMAIN @ |-> CoarsenFeature(@[i], factor)]]

SizesOf(f) ==
    CASE f.disc.kind = "bucket" -> {f.disc.size}
      [] f.disc.kind = "grid"   -> {f.disc.cellW, f.disc.cellH}
      [] OTHER                  -> {}

\* coarsen_l4_preserving_layout succeeds when nothing overflows and both maps compile to one layout.
Coarsens(map, layouts, factor) ==
    LET next == CoarsenL4(map, factor) IN
    /\ Compiles(map, layouts) /\ next.version <= MaxU32
    /\ \A i \in DOMAIN next.features : \A s \in SizesOf(next.features[i]) : s <= MaxU64
    /\ Compiles(next, layouts)
    /\ Layout(map, layouts) = Layout(next, layouts)

\* coarsened_map: the source map after so many passes, and whether each of them succeeded.
CoarsenedMap(source, factor, version) ==
    FoldLeft(LAMBDA map, pass : CoarsenL4(map, factor), source, [pass \in 1 .. version |-> pass])
CoarseningOk(source, layouts, factor, version) ==
    \A pass \in 0 .. version - 1 : Coarsens(CoarsenedMap(source, factor, pass), layouts, factor)
-----------------------------------------------------------------------------
(* Properties.                                                               *)

\* The guest addresses behind the packed bytes, in packed order: what a capture with this layout holds.
PackedBytes(ranges) ==
    FoldLeft(LAMBDA bytes, r :
                bytes \o [i \in 1 .. r.len |-> <<r.region, r.offset + i - 1>>], <<>>, ranges)

\* Fields read their own bytes: what is packed at their offsets are the bytes of their source addresses,
\* however ranges overlapped, touched or contained each other before they were merged.
ReadTheirBytes(fields, ranges) ==
    LET bytes == PackedBytes(ranges) IN
    \A i \in DOMAIN fields : LET f == fields[i] IN
        \A b \in 0 .. f.width - 1 : bytes[f.packed + b + 1] = <<f.region, f.source + b>>
=============================================================================
