\* Every class, both rarity caps, every faction.
CONSTANT Residues <- MCResidues
SPECIFICATION RollSpec
INVARIANTS RollsWithinTables NoSideAdvantage BetterNotWorse
