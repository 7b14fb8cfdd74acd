------------------------------ MODULE MCPmtLog ------------------------------
(* An instance of PmtLog: three clusters in three blocks of four pages. *)
EXTENDS PmtLog

\* Only the pages the table in RAM or the one on flash names are read again,
\* and versions are only compared with the latest.
Age(c, v) == (v + 3 - latest[c]) % 3

Named(loc) == \E c \in Cluster : \/ root_table.map[c] = loc
                                 \/ flash_root.root.map[c] = loc

RightMeta(b, meta) ==
  {p \in DataPage : /\ Named([blk |-> b, pg |-> p])
                    /\ pmt[b][p] # Erased
                    /\ meta[p] = pmt[b][p].cluster}

CellView(b, p) ==
  LET cell == pmt[b][p]
  IN  CASE cell.kind = "node" ->
             IF Named([blk |-> b, pg |-> p])
             THEN <<cell.cluster, Age(cell.cluster, cell.version)>> ELSE <<"stale">>
        [] cell.kind = "meta" -> <<RightMeta(b, cell.clusters)>>
        [] OTHER -> <<>>

TablesView ==
  <<[b \in PmtBlock |-> [p \in Page |-> CellView(b, p)]],
    flash_root, root_table, block_dirty_table,
    [i \in DOMAIN cache |-> IF cache[i] = EmptySlot THEN <<>> ELSE
                            <<cache[i].cluster, cache[i].dirty, cache[i].cell.cluster,
                              Age(cache[i].cluster, cache[i].cell.version)>>],
    {p \in RightMeta(root_table.current.blk, meta_data) : p < root_table.current.pg},
    pc, slot, want, [c \in Cluster |-> Age(c, committed[c])],
    unrooted, forgotten, losses, risks>>

\* Bound: stop at the first power loss or reclaim that leaves a risk.
RiskFree == risks = {}

=============================================================================
