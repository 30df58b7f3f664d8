SPECIFICATION FairSpec
CONSTANTS
    h1 = h1  h2 = h2  NoFile = NoFile  NoDB = NoDB
    Width = 3
    Countries = {"CN", "US"}
    ASNs = {7}
    Raws <- MCRaws
    Formats = {"ip2asn_tsv", "rir_delegated"}
    OverrideTexts <- MCOverrides
    Mangled <- MCMangled
    Explicit <- MCExplicit
    Handlers = {h1, h2}
CHECK_DEADLOCK FALSE
CONSTRAINT MCApart
INVARIANTS TypeOK ServedIsWhole FilesAreServed
PROPERTIES SyncEnds ResolveIsExact OverridesRule
