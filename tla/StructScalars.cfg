SPECIFICATION StructSpec
CONSTANTS
    Blobs <- MCBlobs
    Entries <- MCEntries
    Children <- MCChildren
    Lists <- MCLists
    Header <- MCHeader
    NoHeader <- MCNoHeader
    Child <- MCChild
    Item <- MCItem
    MAX_ROWS <- MC_MAX_ROWS
    DecodeOne <- MCDecodeOne
    HeaderOf <- MCHeaderOf
    ProbeOf <- MCProbeOf
INVARIANTS
    BuildersAreShaped
    RowsAnswered
