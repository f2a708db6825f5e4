SPECIFICATION Spec
CONSTANTS
    Relations <- MCRelations
    Item <- MCItem
    Records <- MCRecords
INVARIANTS BatchesAnswered OnlyTypesFail
